---- MODULE Spec2Model ----
(***************************************************************************)
(* RakNet reliability layer of teampathfinders/inferno: the inbound frame  *)
(* pipeline (core/src/raknet/receive.rs), the outbound send pipeline       *)
(* (core/src/raknet/send.rs) and the NAK/ACK handlers                      *)
(* (src/raknet/sessions.rs) of one connection.                             *)
(*                                                                         *)
(* The order channel, the compound collector, the recovery queue, the send *)
(* queues and the Reliability predicates are used by these files but their *)
(* own source is not part of the tree; they are modelled from spec.md and  *)
(* marked so in MODEL_MAP.json.                                            *)
(***************************************************************************)
EXTENDS Integers, Sequences, FiniteSets, TLC

(***************************************************************************)
(* Bounds of the model                                                     *)
(***************************************************************************)
\* the connection's negotiated MTU (RakNetSession.mtu)
MTU == 1500
\* datagrams a behaviour of the receive specification takes in
MaxRecv == 4
\* datagrams a behaviour of the acknowledgement specification takes in
MaxAckRecv == 3
\* send_raw_buf_with_config calls of a behaviour of the send specification
MaxSends == 2
\* NAK datagrams a behaviour of the send specification takes in
MaxNaks == 1
\* game packets a behaviour of the login specification takes in
MaxGamePackets == 3
\* users a behaviour of the user map specification creates
MaxUsers == 2
\* connections the supervisor specification lets the receive loops create
MaxRunUsers == 1
\* seconds a behaviour of the inactivity timer specification lasts
MaxTime == 12

(***************************************************************************)
(* Program constants                                                       *)
(***************************************************************************)
ORDER_CHANNEL_COUNT == 5
\* std::mem::size_of::<Frame>(): the in-memory size of the struct, which is
\* what the send path adds to a body length.  Seven integer fields, a bool,
\* two u8 and a MutableBuffer, 8-aligned.
SizeOfFrame == 64
\* std::mem::size_of::<FrameBatch>(): a u32 and a Vec.
SizeOfFrameBatch == 32
\* first value that does not fit the 24-bit wire field of write_u24_le
U24Limit == 16777216

(***************************************************************************)
(* Generic helpers                                                         *)
(***************************************************************************)
Range(s) == {s[i] : i \in DOMAIN s}

RECURSIVE Concat(_)
Concat(ss) == IF ss = <<>> THEN <<>> ELSE Head(ss) \o Concat(Tail(ss))

Min(a, b) == IF a < b THEN a ELSE b

(***************************************************************************)
(* Reliability (raknet/reliability.rs, not in the tree)                    *)
(***************************************************************************)
is_reliable(r) == r \in {"Reliable", "ReliableOrdered", "ReliableSequenced"}

is_sequenced(r) == r \in {"UnreliableSequenced", "ReliableSequenced"}

is_ordered(r) == r \in {"UnreliableSequenced", "ReliableOrdered", "ReliableSequenced"}

(***************************************************************************)
(* Frame (core/src/raknet/frame.rs).  On the receive side a body is the    *)
(* byte sequence itself; on the send side it is [id, off, len]: which      *)
(* buffer handed to send_raw_buf_with_config, from which offset, how long. *)
(***************************************************************************)
FrameDefault ==
    [reliability |-> "Unreliable", reliable_index |-> 0, sequence_index |-> 0,
     is_compound |-> FALSE, compound_id |-> 0, compound_size |-> 0,
     compound_index |-> 0, order_index |-> 0, order_channel |-> 0,
     body |-> <<>>]

FrameNew(reliability, body) ==
    [FrameDefault EXCEPT !.reliability = reliability, !.body = body]

(***************************************************************************)
(* OrderChannel (raknet/order.rs, not in the tree), from spec.md section 3 *)
(* and 4.3.1 step 4: frames are held by order_index; the channel tracks    *)
(* its next-expected index; an insert releases the contiguous frames that  *)
(* start at that index and advances the index past them.                   *)
(***************************************************************************)
OrderChannelNew == [index |-> 0, channel |-> <<>>]

RECURSIVE OrderFirstMissing(_, _)
OrderFirstMissing(buf, n) ==
    IF n \in DOMAIN buf THEN OrderFirstMissing(buf, n + 1) ELSE n

\* the channel map after insert(frame): one frame per order_index
OrderPut(buf, frame) ==
    [i \in (DOMAIN buf) \cup {frame.order_index} |->
        IF i = frame.order_index THEN frame ELSE buf[i]]

OrderChannelInsertEager(ch, frame) ==
    \* releases the inserted frame at once, whatever the channel expects
    [chan |-> [ch EXCEPT !.index = frame.order_index + 1],
     ready |-> <<frame>>]

OrderChannelInsert(ch, frame) ==
    LET buf     == OrderPut(ch.channel, frame)
        start   == ch.index
        current == OrderFirstMissing(buf, start)
        ready   == [k \in 1..(current - start) |-> buf[start + k - 1]]
        rest    == [i \in (DOMAIN buf) \ (start..(current - 1)) |-> buf[i]]
    IN  [chan |-> [ch EXCEPT !.index = current, !.channel = rest],
         ready |-> ready]

(***************************************************************************)
(* CompoundCollector (raknet/compound.rs, not in the tree), from spec.md   *)
(* section 3 and 4.3.1 step 3: fragments are kept per compound_id with the *)
(* expected size; when every index is present the bodies are concatenated  *)
(* in index order into one non-compound frame that keeps the fragment's    *)
(* reliability, order channel and indices.                                 *)
(***************************************************************************)
CompoundEntryPut(compounds, frame) ==
    LET old == IF frame.compound_id \in DOMAIN compounds
               THEN compounds[frame.compound_id]
               ELSE [size |-> frame.compound_size, fragments |-> <<>>]
        frs == [i \in (DOMAIN old.fragments) \cup {frame.compound_index} |->
                   IF i = frame.compound_index THEN frame.body
                   ELSE old.fragments[i]]
    IN  [old EXCEPT !.fragments = frs]

CompoundInsert(compounds, frame) ==
    LET entry    == CompoundEntryPut(compounds, frame)
        complete == (0..(entry.size - 1)) \subseteq DOMAIN entry.fragments
        merged   == Concat([k \in 1..entry.size |-> entry.fragments[k - 1]])
    IN  IF complete
        THEN [compounds |-> [c \in (DOMAIN compounds) \ {frame.compound_id} |->
                                compounds[c]],
              some |-> TRUE,
              frame |-> [frame EXCEPT !.is_compound = FALSE, !.body = merged]]
        ELSE [compounds |-> [c \in (DOMAIN compounds) \cup {frame.compound_id} |->
                                IF c = frame.compound_id THEN entry
                                ELSE compounds[c]],
              some |-> FALSE,
              frame |-> frame]

(***************************************************************************)
(* State of one connection                                                 *)
(***************************************************************************)
VARIABLES
    \* ---- receive side (RaknetUser, receive.rs)
    client_batch_number, \* highest datagram sequence number received
                         \* (receive.rs reads it as self.batch_number)
    acknowledged,        \* Vec<u32> of sequence numbers awaiting an ACK
    compounds,           \* CompoundCollector: compound_id -> entry
    order,               \* [OrderChannel; ORDER_CHANNEL_COUNT], receive half
    recv_result,         \* what the last handle_raw_packet returned
    \* ---- history of the receive side
    received,            \* number of datagrams taken in
    arrived,             \* every frame that arrived in a datagram
    released,            \* per OrderChannel::insert: what it released
    reassembled,         \* frames the compound collector produced
    delivered,           \* frames handed to handle_frame_body, in order
    reliable_rx,         \* sequence numbers of datagrams with a reliable
                         \* frame received since the last emitted ACK
    acks,                \* ACK datagrams emitted, with what they answer
    \* ---- send side (RakNetSession, send.rs)
    send_queue,          \* SendQueues: priority -> frames awaiting a flush
    batch_number,        \* AtomicU32: next datagram sequence number
    sequence_index,      \* AtomicU32: next sequence index
    ack_index,           \* AtomicU32: next reliable index
    compound_id,         \* AtomicU16: next compound id
    order_index,         \* per order channel: next order index to assign
    recovery_queue,      \* RecoveryQueue: sequence number -> frames
    current_tick,        \* AtomicU64, kept modulo 4 (only % 2, % 4 are read)
    flusher,             \* "running", or "panicked" once the tick job died
    debug_assertions,    \* whether the build keeps debug_assert!
    \* ---- history of the send side
    sends,               \* send_raw_buf_with_config calls so far
    naks,                \* NAK datagrams taken in so far
    last_ack,            \* the last ACK taken in: the sequence numbers its
                         \* records cover, the recovery queue before it
    nacked,              \* frames a NAK put back into the send queue
    drained,             \* frames that flushes took out of the send queue
    wire,                \* datagrams handed to the UDP socket, in order
    send_result,         \* what the last flush returned
    \* ---- game layer of one connection (BedrockUser, login.rs)
    expected,            \* AtomicU32: packet the login sequence awaits
    compressed,          \* whether compression has been switched on
    identity,            \* OnceCell: TRUE once the identity is stored
    encryptor,           \* OnceCell: TRUE once the encryptor is installed
    send_counter,        \* the encryptor's counter of the send direction
    player,              \* OnceCell: TRUE once the player data is stored
    user_status,         \* "active", "kicked" or "panicked"
    \* ---- history of the game layer
    game_packets,        \* game packets dispatched so far
    last_packet,         \* the last dispatch: id, expected before it,
                         \* whether a handler ran, what it returned
    \* ---- user map (UserMap, map.rs)
    connecting_map,      \* DashMap: address -> user, NoUser without entry
    connected_map,       \* DashMap: address -> user, NoUser without entry
    users,               \* every user insert created, with its two tasks
    forward_pc,          \* where the receive loop's forward call stands
    shutdown,            \* "idle", "kicked", "joining", "returned", "failed"
    join_set,            \* users whose task handle shutdown awaits
    \* ---- history of the user map
    forwarded,           \* outcome of the last forward call
    broadcasts,          \* Disconnect packets put on the broadcast channel
    at_shutdown,         \* users with a map entry when shutdown was called
    replies,             \* OpenConnectionReply2 packets built
    \* ---- supervisor (Instance, instance.rs)
    run_pc,              \* where Instance::run stands
    token,               \* the global CancellationToken: TRUE once cancelled
    recv_job,            \* per socket: "running" or "closed"
    \* ---- offline packets and codecs: the last input and its result
    offline_io,          \* process_open_connection_request1
    u24_io,              \* write_u24_le / read_u24_le
    var_io,              \* write_var_u32 / read_var_u32
    frame_io,            \* FrameBatch::serialize / FrameBatch::deserialize
    compress_io,         \* send_buf: whether the payload was compressed
    guid_io,             \* net_receiver: the server GUID of each receive
                         \* job and the offline replies sent with it
    \* ---- inactivity timer of the connection (sessions.rs)
    now,                 \* Instant::now(), in seconds since creation
    last_update,         \* the connection's last_update
    active,              \* the connection's token: FALSE once cancelled
    \* ---- history of the timer
    last_datagram        \* when the last datagram was handled

recv_vars == <<client_batch_number, acknowledged, compounds, order,
               recv_result, received, arrived, released, reassembled,
               delivered, reliable_rx, acks>>

send_vars == <<send_queue, batch_number, sequence_index, ack_index,
               compound_id, order_index, recovery_queue, current_tick,
               flusher, debug_assertions, sends, naks, last_ack, nacked, drained,
               wire, send_result>>

login_vars == <<expected, compressed, identity, encryptor, send_counter, player,
                user_status, game_packets, last_packet>>

run_vars == <<run_pc, token, recv_job>>

map_vars == <<connecting_map, connected_map, users, forward_pc, shutdown,
              join_set, forwarded, broadcasts, at_shutdown, replies>>

\* the variables of the supervisor, the inactivity timer and the codecs
codec_vars == <<offline_io, u24_io, var_io, frame_io, compress_io,
                guid_io>>

timer_vars == <<now, last_update, active, last_datagram>>

more_vars == <<run_vars, codec_vars>>

vars == <<recv_vars, send_vars, login_vars, map_vars, more_vars, timer_vars>>

(***************************************************************************)
(* receive.rs handle_raw_packet, sessions.rs: the inactivity timer         *)
(***************************************************************************)
SESSION_TIMEOUT == 5

\* a datagram handled after the clock was read keeps the old value
LastUpdateStale(clock, last) == last

\* *self.last_update.write() = Instant::now()
LastUpdate(clock, last) == clock

\* the packet processor's loop around the handler (sessions.rs 129-138):
\* Ok(_) => (), Err(e) => tracing::error!("{e}"), and the loop goes on; a
\* panic ends the processor.  None of them cancels the token.
ProcessorAfter(result, is_active) == is_active

\* the first statement of handle_raw_packet, run by a connection that has
\* not been cancelled, and what the processor does with the result
Touch(result) ==
    /\ active
    /\ last_update' = LastUpdate(now, last_update)
    /\ last_datagram' = now
    /\ active' = ProcessorAfter(result, active)
    /\ UNCHANGED now

\* time passes
Elapse ==
    /\ now < MaxTime
    /\ now' = now + 1
    /\ UNCHANGED <<recv_vars, send_vars, login_vars, map_vars, more_vars,
                   last_update, active, last_datagram>>

(***************************************************************************)
(* receive.rs: handle_frame_body, handle_frame, handle_frame_batch         *)
(***************************************************************************)
\* first bytes the dispatcher has an arm for: CONNECTED_PACKET_ID,
\* DisconnectNotification, ConnectionRequest, NewIncomingConnection,
\* ConnectedPing
KnownIds == {254, 21, 9, 19, 0}

\* handle_frame_body(packet): Ok for an ID with an arm, Err otherwise, and a
\* panic of expect() on an empty buffer.  st.delivered records the call.
HandleFrameBody(st, frame, via) ==
    LET logged == [st EXCEPT !.delivered = Append(@,
                      [order_channel |-> frame.order_channel,
                       order_index |-> frame.order_index,
                       reliability |-> frame.reliability,
                       via |-> via,
                       body |-> frame.body])]
    IN  IF frame.body = <<>> THEN [logged EXCEPT !.result = "panic"]
        ELSE IF frame.body[1] \in KnownIds THEN logged
        ELSE [logged EXCEPT !.result = "err"]

\* for packet in ready { self.handle_frame_body(packet.body).await?; }
RECURSIVE DeliverReady(_, _)
DeliverReady(st, ready) ==
    IF ready = <<>> THEN st
    ELSE LET s1 == HandleFrameBody(st, Head(ready), "order")
         IN  IF s1.result # "ok" THEN s1 ELSE DeliverReady(s1, Tail(ready))

HandleOrderedUnchecked(st, frame) ==
    \* hands an ordered frame to the dispatcher as it arrives
    HandleFrameBody(st, frame, "order")

\* the ordered/sequenced arm of handle_frame
HandleOrdered(st, frame) ==
    LET res == OrderChannelInsert(st.order[frame.order_channel], frame)
        s1  == [st EXCEPT
                  !.order[frame.order_channel] = res.chan,
                  !.released = Append(@,
                      [order_channel |-> frame.order_channel,
                       order_index |-> frame.order_index,
                       expected |-> st.order[frame.order_channel].index,
                       ready |-> [k \in DOMAIN res.ready |->
                                     res.ready[k].order_index]])]
    IN  DeliverReady(s1, res.ready)

HandleCompoundPassThrough(st, frame) ==
    \* hands every fragment on as if it completed its compound
    [st |-> st, some |-> TRUE, frame |-> [frame EXCEPT !.is_compound = FALSE]]

\* the is_compound arm of handle_frame up to the recursive call: the state
\* after compounds.insert(frame) and the frame to recurse on, if any
HandleCompound(st, frame) ==
    LET res == CompoundInsert(st.compounds, frame)
    IN  [st   |-> [st EXCEPT !.compounds = res.compounds,
                             !.reassembled = IF res.some
                                             THEN Append(@, res.frame)
                                             ELSE @],
         some |-> res.some,
         frame |-> res.frame]

RECURSIVE HandleFrame(_, _, _)
HandleFrame(st, frame, seq_number) ==
    IF /\ is_sequenced(frame.reliability)
       /\ frame.sequence_index < st.client_batch_number
    THEN st
    ELSE
      LET s1 == IF is_reliable(frame.reliability)
                THEN [st EXCEPT !.acknowledged = Append(@, seq_number)]
                ELSE st
      IN  IF frame.is_compound
          THEN LET c == HandleCompound(s1, frame)
               IN  IF c.some THEN HandleFrame(c.st, c.frame, seq_number)
                   ELSE c.st
          ELSE IF \/ is_ordered(frame.reliability)
                  \/ is_sequenced(frame.reliability)
          THEN IF frame.order_channel >= ORDER_CHANNEL_COUNT
               THEN \* self.order[frame.order_channel as usize]: the index
                    \* is out of the array's bounds
                    [s1 EXCEPT !.result = "panic"]
               ELSE HandleOrdered(s1, frame)
          ELSE HandleFrameBody(s1, frame, "direct")

\* for frame in batch.frames { self.handle_frame(frame, seq).await?; }
RECURSIVE HandleFrames(_, _, _)
HandleFrames(st, frames, seq_number) ==
    IF frames = <<>> THEN st
    ELSE LET s1 == HandleFrame(st, Head(frames), seq_number)
         IN  IF s1.result # "ok" THEN s1
             ELSE HandleFrames(s1, Tail(frames), seq_number)

Max(a, b) == IF a > b THEN a ELSE b

HandleFrameBatch(st, batch) ==
    HandleFrames(
        [st EXCEPT !.client_batch_number = Max(@, batch.sequence_number)],
        batch.frames, batch.sequence_number)

RecvState ==
    [client_batch_number |-> client_batch_number,
     acknowledged |-> acknowledged, compounds |-> compounds,
     order |-> order, released |-> released, reassembled |-> reassembled,
     delivered |-> delivered, result |-> "ok"]

HasReliable(batch) ==
    \E i \in DOMAIN batch.frames : is_reliable(batch.frames[i].reliability)

\* what handle_raw_packet leaves behind when the batch took the receive
\* half to st
StoreRecv(batch, st) ==
    /\ received' = received + 1
    /\ arrived' = arrived \cup Range(batch.frames)
    /\ reliable_rx' = IF HasReliable(batch)
                      THEN reliable_rx \cup {batch.sequence_number}
                      ELSE reliable_rx
    /\ client_batch_number' = st.client_batch_number
    /\ acknowledged' = st.acknowledged
    /\ compounds' = st.compounds
    /\ order' = st.order
    /\ released' = st.released
    /\ reassembled' = st.reassembled
    /\ delivered' = st.delivered
    /\ recv_result' = st.result
    /\ Touch(st.result)
    /\ UNCHANGED <<acks, send_vars, login_vars, map_vars, more_vars>>

\* handle_raw_packet on a datagram that is a frame batch
ReceiveFrameBatch(batch) ==
    /\ recv_result # "panic"
    /\ StoreRecv(batch, HandleFrameBatch(RecvState, batch))

(***************************************************************************)
(* send.rs: flush_acknowledgements                                         *)
(***************************************************************************)
\* Vec::dedup: removes consecutive repeated elements
RECURSIVE Dedup(_)
Dedup(s) ==
    IF Len(s) <= 1 THEN s
    ELSE IF s[1] = s[2] THEN Dedup(Tail(s))
    ELSE <<s[1]>> \o Dedup(Tail(s))

RECURSIVE InsertSorted(_, _)
InsertSorted(x, s) ==
    IF s = <<>> THEN <<x>>
    ELSE IF x <= Head(s) THEN <<x>> \o s
    ELSE <<Head(s)>> \o InsertSorted(x, Tail(s))

\* sort_unstable on integers
RECURSIVE SortUnstable(_)
SortUnstable(s) ==
    IF s = <<>> THEN <<>> ELSE InsertSorted(Head(s), SortUnstable(Tail(s)))

AckSingle(n) == [kind |-> "Single", first |-> n, last |-> n]

AckRange(a, b) == [kind |-> "Range", first |-> a, last |-> b]

\* the loop over confirmed.iter().enumerate(), from position index on
RECURSIVE AckRecordsFrom(_, _, _, _)
AckRecordsFrom(confirmed, index, consecutive, records) ==
    IF index > Len(confirmed) THEN records
    ELSE LET id      == confirmed[index]
             is_last == index = Len(confirmed)
         IN  IF ~is_last /\ id + 1 = confirmed[index + 1]
             THEN AckRecordsFrom(confirmed, index + 1,
                                 Append(consecutive, id), records)
             ELSE IF consecutive = <<>>
             THEN AckRecordsFrom(confirmed, index + 1, consecutive,
                                 Append(records, AckSingle(id)))
             ELSE AckRecordsFrom(confirmed, index + 1, <<>>,
                                 Append(records, AckRange(consecutive[1], id)))

\* confirmed.dedup(); confirmed.sort_unstable();
ConfirmedNormalised(pending) == SortUnstable(Dedup(pending))

\* the records of the ACK that flush_acknowledgements builds from the
\* pending list
AckRecords(pending) == AckRecordsFrom(ConfirmedNormalised(pending), 1, <<>>, <<>>)

\* flush_acknowledgements: nothing when the list is empty, else one ACK
\* datagram; acks records it with the pending list and the datagrams it
\* has to answer
FlushAcknowledgements ==
    IF acknowledged = <<>>
    THEN UNCHANGED <<acknowledged, acks, reliable_rx>>
    ELSE /\ acknowledged' = <<>>
         /\ acks' = Append(acks, [pending |-> acknowledged,
                                  answers |-> reliable_rx,
                                  records |-> AckRecords(acknowledged)])
         /\ reliable_rx' = {}

(***************************************************************************)
(* frame.rs: FrameBatch                                                    *)
(***************************************************************************)
RECURSIVE SumFrameSizes(_)
SumFrameSizes(frames) ==
    IF frames = <<>> THEN 0
    ELSE SizeOfFrame + Head(frames).body.len + SumFrameSizes(Tail(frames))

\* FrameBatch::estimate_size
estimate_size(batch) == SizeOfFrameBatch + SumFrameSizes(batch.frames)

\* FrameBatch::serialize fails when sequence_number does not convert to a
\* u24.  A u32 is held as its two's-complement reading, so the word
\* 0xFFFFFFFF that fetch_sub(1) leaves in a counter at 0 reads -1.
SerializeOk(batch) ==
    /\ batch.sequence_number >= 0
    /\ batch.sequence_number < U24Limit

(***************************************************************************)
(* RecoveryQueue and SendQueues (raknet/recovery.rs, raknet/send_queue.rs, *)
(* not in the tree), from spec.md section 3 and 4.3.2 to 4.3.4: the        *)
(* recovery queue maps a datagram sequence number to its frames, confirm   *)
(* removes the entries an ACK names, recover removes and returns the       *)
(* frames of the entries a NAK names; a send queue holds the frames of one *)
(* priority in insertion order and flush takes them all.                   *)
(***************************************************************************)
RecoveryInsert(queue, batch) ==
    [s \in (DOMAIN queue) \cup {batch.sequence_number} |->
        IF s = batch.sequence_number THEN batch.frames ELSE queue[s]]

RecoveryConfirmAll(queue, seqs) ==
    \* forgets every stored datagram once one of them is acknowledged
    IF seqs \cap DOMAIN queue = {} THEN queue
    ELSE [s \in {} |-> <<>>]

RecoveryConfirm(queue, seqs) ==
    [s \in (DOMAIN queue) \ seqs |-> queue[s]]

RECURSIVE RecoveryFrames(_, _)
RecoveryFrames(queue, seqs) ==
    IF seqs \cap DOMAIN queue = {} THEN <<>>
    ELSE LET s == CHOOSE x \in seqs \cap DOMAIN queue :
                      \A y \in seqs \cap DOMAIN queue : x <= y
         IN  queue[s] \o RecoveryFrames(queue, seqs \ {s})

RecoveryRecover(queue, seqs) ==
    [queue |-> RecoveryConfirm(queue, seqs),
     frames |-> RecoveryFrames(queue, seqs)]

Priorities == {"High", "Medium", "Low"}

SendQueuesNew == [p \in Priorities |-> <<>>]

insert_raw(queues, priority, frame) ==
    [queues EXCEPT ![priority] = Append(@, frame)]

insert_batch(queues, priority, frames) ==
    [queues EXCEPT ![priority] = @ \o frames]

(***************************************************************************)
(* send.rs: split_frame                                                    *)
(***************************************************************************)
chunk_max_size == MTU - SizeOfFrame - SizeOfFrameBatch

CeilDiv(a, b) == (a + b - 1) \div b

\* the compound_size that split_frame writes into every fragment
SplitCompoundSize(frame) ==
    CeilDiv(frame.body.len + SizeOfFrame, chunk_max_size)

\* frame.body.chunks(chunk_max_size).len()
SplitChunkCount(frame) == CeilDiv(frame.body.len, chunk_max_size)

\* the fragments split_frame returns for compound id cid
split_frame(frame, cid) ==
    [i \in 1..SplitChunkCount(frame) |->
        [FrameDefault EXCEPT
            !.reliability = frame.reliability,
            !.is_compound = TRUE,
            !.compound_index = i - 1,
            !.compound_size = SplitCompoundSize(frame),
            !.compound_id = cid,
            !.body = [id |-> frame.body.id,
                      off |-> frame.body.off + (i - 1) * chunk_max_size,
                      len |-> Min(chunk_max_size,
                                  frame.body.len - (i - 1) * chunk_max_size)]]]

\* debug_assert_eq!(chunks.len(), compound_size) fails
SplitAssertFails(frame) == SplitChunkCount(frame) # SplitCompoundSize(frame)

(***************************************************************************)
(* send.rs: send_raw_frames.  tx is the state the call works on: the       *)
(* counters, the recovery queue, the wire, and result, which is "ok" until *)
(* a ? returns an error ("err") or an assertion panics ("panic").          *)
(***************************************************************************)
\* serialize, send_to and, for a batch flagged reliable, recovery insert
EmitBatch(tx, batch, has_reliable_packet) ==
    IF ~SerializeOk(batch) THEN [tx EXCEPT !.result = "err"]
    ELSE [tx EXCEPT
            !.wire = Append(@, batch),
            !.recovery_queue = IF has_reliable_packet
                               THEN RecoveryInsert(@, batch) ELSE @]

\* the three index assignments of the second loop
AssignIndices(tx, frame) ==
    LET ch == frame.order_channel
        f1 == IF is_ordered(frame.reliability)
              THEN [frame EXCEPT !.order_index = tx.order_index[ch]]
              ELSE frame
        f2 == IF is_sequenced(frame.reliability)
              THEN [f1 EXCEPT !.sequence_index = tx.sequence_index]
              ELSE f1
        f3 == IF is_reliable(frame.reliability)
              THEN [f2 EXCEPT !.reliable_index = tx.ack_index]
              ELSE f2
    IN  [frame |-> f3,
         tx |-> [tx EXCEPT
                   !.order_index[ch] =
                       IF is_ordered(frame.reliability) THEN @ + 1 ELSE @,
                   !.sequence_index =
                       IF is_sequenced(frame.reliability) THEN @ + 1 ELSE @,
                   !.ack_index =
                       IF is_reliable(frame.reliability) THEN @ + 1 ELSE @]]

RECURSIVE send_raw_frames(_, _)

\* first loop: every frame with frame_size > mtu is split and its
\* fragments sent by a nested call, after batch_number.fetch_sub(1)
RECURSIVE SplitLoop(_, _)
SplitLoop(tx, frames) ==
    IF frames = <<>> THEN tx
    ELSE LET frame == Head(frames)
             frame_size == frame.body.len + SizeOfFrame
         IN  IF frame_size > MTU
             THEN LET t1 == [tx EXCEPT !.batch_number = @ - 1]
                  IN  IF tx.debug_assertions /\ SplitAssertFails(frame)
                      THEN [t1 EXCEPT !.result = "panic"]
                      ELSE LET t2 == [t1 EXCEPT !.compound_id = (@ + 1) % 65536]
                               t3 == send_raw_frames(t2,
                                         split_frame(frame, t1.compound_id))
                           IN  IF t3.result # "ok" THEN t3
                               ELSE SplitLoop(t3, Tail(frames))
             ELSE SplitLoop(tx, Tail(frames))

\* what the second loop does with a frame once its indices are assigned
PlaceFrame(tx, batch, frame, has_reliable_packet) ==
    LET frame_size == frame.body.len + SizeOfFrame
    IN  IF estimate_size(batch) + frame_size <= MTU
        THEN [tx |-> tx,
              batch |-> [batch EXCEPT !.frames = Append(@, frame)],
              has_reliable_packet |-> has_reliable_packet]
        ELSE IF batch.frames # <<>>
        THEN LET t1 == EmitBatch(tx, batch, has_reliable_packet)
             IN  [tx |-> IF t1.result # "ok" THEN t1
                         ELSE [t1 EXCEPT !.batch_number = @ + 1],
                  batch |-> [sequence_number |-> t1.batch_number,
                             frames |-> <<frame>>],
                  has_reliable_packet |-> FALSE]
        ELSE [tx |-> tx, batch |-> batch,
              has_reliable_packet |-> has_reliable_packet]

\* second loop and the code after it
RECURSIVE BatchLoop(_, _, _, _)
BatchLoop(tx, frames, batch, has_reliable_packet) ==
    IF frames = <<>>
    THEN IF batch.frames # <<>>
         THEN EmitBatch(tx, batch, has_reliable_packet)
         ELSE [tx EXCEPT !.batch_number = @ - 1]
    ELSE LET a == AssignIndices(tx, Head(frames))
             p == PlaceFrame(a.tx, batch, a.frame,
                             has_reliable_packet
                                 \/ is_reliable(a.frame.reliability))
         IN  IF p.tx.result # "ok" THEN p.tx
             ELSE BatchLoop(p.tx, Tail(frames), p.batch,
                            p.has_reliable_packet)

send_raw_frames(tx, frames) ==
    LET t1 == SplitLoop(tx, frames)
    IN  IF t1.result # "ok" THEN t1
        ELSE BatchLoop([t1 EXCEPT !.batch_number = @ + 1], frames,
                       [sequence_number |-> t1.batch_number,
                        frames |-> <<>>],
                       FALSE)

(***************************************************************************)
(* send.rs: flush                                                          *)
(***************************************************************************)
\* if let Some(frames) = self.send_queue.flush(p) { send_raw_frames? }
\* fl is [tx, queues]; a queue is taken only while no error has returned
FlushPriority(fl, priority) ==
    IF fl.tx.result # "ok" \/ fl.queues[priority] = <<>> THEN fl
    ELSE [tx |-> send_raw_frames(
                     [fl.tx EXCEPT !.drained =
                         @ \cup Range(fl.queues[priority])],
                     fl.queues[priority]),
          queues |-> [fl.queues EXCEPT ![priority] = <<>>]]

\* a queue that is flushed only on some ticks
FlushIf(due, fl, priority) == IF due THEN FlushPriority(fl, priority) ELSE fl

flush(tx, queues, tick) ==
    FlushIf(tick % 4 = 0,
            FlushIf(tick % 2 = 0,
                    FlushPriority([tx |-> tx, queues |-> queues], "High"),
                    "Medium"),
            "Low")

SendState ==
    [batch_number |-> batch_number, sequence_index |-> sequence_index,
     ack_index |-> ack_index, compound_id |-> compound_id,
     order_index |-> order_index, recovery_queue |-> recovery_queue,
     debug_assertions |-> debug_assertions, nacked |-> nacked,
     drained |-> drained, wire |-> wire, result |-> "ok"]

(***************************************************************************)
(* Actions                                                                 *)
(***************************************************************************)
\* send_raw_buf_with_config(buffer, config): the buffer is the sends-th one
SendRawBuf(reliability, priority, len) ==
    /\ sends < MaxSends
    /\ send_queue' = insert_raw(send_queue, priority,
                        FrameNew(reliability,
                                 [id |-> sends, off |-> 0, len |-> len]))
    /\ sends' = sends + 1
    /\ UNCHANGED <<recv_vars, batch_number, sequence_index, ack_index,
                   compound_id, order_index, recovery_queue, current_tick,
                   flusher, debug_assertions, naks, last_ack, nacked, drained, wire,
                   send_result, login_vars, map_vars, more_vars,
                   timer_vars>>

\* if Instant::now().duration_since(last_update) > SESSION_TIMEOUT
TimedOut(elapsed) == elapsed > SESSION_TIMEOUT

\* what a tick leaves behind when its flush ended in fl: the timeout check
\* comes first and flags the connection for close
StoreFlush(fl) ==
    /\ current_tick' = (current_tick + 1) % 4
    /\ send_queue' = fl.queues
    /\ batch_number' = fl.tx.batch_number
    /\ sequence_index' = fl.tx.sequence_index
    /\ ack_index' = fl.tx.ack_index
    /\ compound_id' = fl.tx.compound_id
    /\ order_index' = fl.tx.order_index
    /\ recovery_queue' = fl.tx.recovery_queue
    /\ drained' = fl.tx.drained
    /\ wire' = fl.tx.wire
    /\ send_result' = fl.tx.result
    /\ flusher' = IF fl.tx.result = "panic" THEN "panicked" ELSE flusher
    /\ active' = IF TimedOut(now - last_update) THEN FALSE ELSE active
    /\ IF current_tick % 4 = 0 /\ fl.tx.result = "ok"
       THEN FlushAcknowledgements
       ELSE UNCHANGED <<acknowledged, acks, reliable_rx>>
    /\ UNCHANGED <<client_batch_number, compounds, order, recv_result,
                   received, arrived, released, reassembled, delivered,
                   debug_assertions, sends, naks, last_ack, nacked, login_vars,
                   map_vars, more_vars, now, last_update, last_datagram>>

\* sessions.rs tick: current_tick.fetch_add(1), then the flush with the
\* value read; flush_acknowledgements runs when tick % 4 == 0 and no send
\* returned an error before it
Tick ==
    /\ flusher = "running"
    /\ active
    /\ StoreFlush(flush(SendState, send_queue, current_tick))

\* sessions.rs process_nack, for a NAK whose records cover seqs
HandleNack(seqs) ==
    LET r == RecoveryRecover(recovery_queue, seqs)
    IN  /\ naks < MaxNaks
        /\ naks' = naks + 1
        /\ recovery_queue' = r.queue
        /\ send_queue' = insert_batch(send_queue, "Medium", r.frames)
        /\ nacked' = nacked \cup Range(r.frames)
        /\ Touch("ok")
        /\ UNCHANGED <<recv_vars, batch_number, sequence_index, ack_index,
                       compound_id, order_index, current_tick, flusher,
                       debug_assertions, sends, last_ack, drained, wire,
                       send_result, login_vars, map_vars, more_vars>>

\* sessions.rs process_ack, for an ACK whose records cover seqs
HandleAck(seqs) ==
    /\ recovery_queue' = RecoveryConfirm(recovery_queue, seqs)
    /\ last_ack' = [seqs |-> seqs, queue |-> recovery_queue]
    /\ Touch("ok")
    /\ UNCHANGED <<recv_vars, send_queue, batch_number, sequence_index,
                   ack_index, compound_id, order_index, current_tick,
                   flusher, debug_assertions, sends, naks, nacked, drained,
                   wire, send_result, login_vars, map_vars, more_vars>>

(***************************************************************************)
(* Inputs                                                                  *)
(***************************************************************************)
RxFrame(reliability, channel, index, body) ==
    [FrameDefault EXCEPT !.reliability = reliability,
                         !.order_channel = channel,
                         !.order_index = index, !.body = body]

\* ReliableOrdered frames 0, 1, 2 of order channel 0
RxOrdered(i) == RxFrame("ReliableOrdered", 0, i, <<254, 10 + i>>)

\* the three fragments of a ReliableOrdered frame at index 0 of channel 1
RxFragmentBody == <<(<<254, 1>>), (<<2, 3>>), (<<4>>)>>

RxFragment(k) ==
    [RxFrame("ReliableOrdered", 1, 0, RxFragmentBody[k + 1]) EXCEPT
        !.is_compound = TRUE, !.compound_id = 7, !.compound_size = 3,
        !.compound_index = k]

RxPing == RxFrame("Unreliable", 0, 0, <<0>>)

\* a first byte the frame-body dispatcher has no arm for
RxUnknown == RxFrame("Unreliable", 0, 0, <<66>>)

RxSequenced(seq_index) ==
    [RxFrame("UnreliableSequenced", 2, 0, <<254, 20>>) EXCEPT
        !.sequence_index = seq_index]

\* a Reliable (unordered) ConnectedPing with reliable_index n
RxReliable(n) ==
    [RxFrame("Reliable", 0, 0, <<0, n>>) EXCEPT !.reliable_index = n]

Datagram(seq, frames) == [sequence_number |-> seq, frames |-> frames]

RecvBatches ==
    { Datagram(0, <<RxOrdered(0)>>),
      Datagram(1, <<RxOrdered(1)>>),
      Datagram(2, <<RxOrdered(2)>>),
      Datagram(3, <<RxFragment(0)>>),
      Datagram(4, <<RxFragment(2), RxPing>>),
      Datagram(5, <<RxFragment(1)>>),
      Datagram(6, <<RxSequenced(3)>>),
      Datagram(7, <<RxSequenced(7), RxUnknown, RxOrdered(1)>>),
      Datagram(8, <<RxReliable(9)>>) }

\* what a peer is free to send: a frame without a body, an ordered frame
\* on a channel that was never allocated, a body with an unknown ID
HostileBatches ==
    { Datagram(0, <<RxFrame("Unreliable", 0, 0, <<>>)>>),
      Datagram(1, <<RxFrame("ReliableOrdered", ORDER_CHANNEL_COUNT, 0,
                            <<254, 1>>)>>),
      Datagram(2, <<RxUnknown>>),
      Datagram(3, <<RxPing>>),
      Datagram(4, <<RxOrdered(0)>>) }

AckBatches ==
    { Datagram(3, <<RxReliable(0)>>),
      Datagram(4, <<RxReliable(1), RxReliable(2)>>),
      Datagram(5, <<RxReliable(3)>>),
      Datagram(7, <<RxPing, RxReliable(4)>>),
      Datagram(9, <<RxPing>>) }

\* body lengths handed to send_raw_buf_with_config
LenSmall == 100
LenFits == MTU - SizeOfFrame
LenTwo == MTU - SizeOfFrame + 1
LenEven == 2 * chunk_max_size

SendInputs ==
    ({"Unreliable"} \X {LenSmall, LenFits})
        \cup ({"ReliableOrdered"} \X {LenSmall, LenFits, LenTwo, LenEven})

NakSeqs == 0..2

\* what the records of an ACK cover: one sequence number, or a range
AckSeqs == {a..b : a, b \in NakSeqs} \ {{}}

(***************************************************************************)
(* login.rs: the game-packet handlers of the login sequence                *)
(***************************************************************************)
\* the part of a connection a game-packet handler reads and writes; tx and
\* queues are the RakNet send half the handlers queue into and flush
UserState ==
    [expected |-> expected, compressed |-> compressed,
     identity |-> identity, encryptor |-> encryptor,
     send_counter |-> send_counter, player |-> player,
     status |-> user_status, queues |-> send_queue, tx |-> SendState,
     sends |-> sends, flushed |-> FALSE, result |-> "ok"]

\* send_buf with every encryption step left out
send_buf_plain(u, packet) ==
    [u EXCEPT
        !.queues = insert_raw(@, "Medium",
                      FrameNew("ReliableOrdered",
                               [id |-> u.sends, off |-> 0, len |-> LenSmall,
                                packet |-> packet, encrypted |-> FALSE,
                                counter |-> u.send_counter])),
        !.sends = @ + 1]

\* send_buf(buffer, config): the serialised packet is encrypted when the
\* encryptor cell holds a value, which takes the next value of the send
\* counter, then queued ReliableOrdered at the priority of config; counter
\* is the value the send counter had when the packet passed
send_buf_config(u, packet, priority) ==
    [u EXCEPT
        !.queues = insert_raw(@, priority,
                      FrameNew("ReliableOrdered",
                               [id |-> u.sends, off |-> 0, len |-> LenSmall,
                                packet |-> packet,
                                encrypted |-> u.encryptor,
                                counter |-> u.send_counter])),
        !.send_counter = IF u.encryptor THEN @ + 1 ELSE @,
        !.sends = @ + 1]

\* send: send_buf with DEFAULT_SEND_CONFIG, Medium priority
send_buf(u, packet) == send_buf_config(u, packet, "Medium")

\* kick: a Disconnect with the reason is sent and the connection closed
kick(u) == [send_buf(u, "Disconnect") EXCEPT !.status = "kicked"]

Err(u) == [u EXCEPT !.result = "err"]

\* handle_network_settings_request; input is what deserialize and the
\* protocol version comparison give
handle_network_settings_request(u, input) ==
    LET u1 == [u EXCEPT !.expected = "Login"]
    IN  CASE input = "bad" -> Err(u1)
          [] input \in {"newer", "older"} -> Err(send_buf(u1, "PlayStatus"))
          [] OTHER ->
                [send_buf(u1, "NetworkSettings") EXCEPT !.compressed = TRUE]

\* the connection after the flush fl of its send queues
Flushed(u, fl) ==
    [u EXCEPT !.tx = fl.tx, !.queues = fl.queues, !.flushed = TRUE,
              !.result = fl.tx.result,
              !.status = IF fl.tx.result = "panic" THEN "panicked" ELSE @]

\* the flush handle_login runs before it enables encryption
LoginFlush(u, tick) == Flushed(u, flush(u.tx, u.queues, tick))

\* handle_login from the ServerToClientHandshake on
LoginHandshake(u) ==
    LET u1 == send_buf(u, "ServerToClientHandshake")
        u2 == IF u1.encryptor THEN kick(u1)
              ELSE [u1 EXCEPT !.encryptor = TRUE]
    IN  IF u2.player THEN Err(u2) ELSE [u2 EXCEPT !.player = TRUE]

\* handle_login once the flush has returned: its ? ends the handler
AfterLoginFlush(u) == IF u.result # "ok" THEN u ELSE LoginHandshake(u)

\* handle_login; input is what deserialize (which validates the identity
\* chain), the replicator and Encryptor::new give
handle_login(u, input, tick) ==
    LET u1 == [u EXCEPT !.expected = "ClientToServerHandshake"]
    IN  CASE input = "bad" -> Err(kick(u1))
          [] input \in {"replicator", "key"} -> Err(u1)
          [] OTHER ->
                IF u1.identity
                THEN [u1 EXCEPT !.status = "panicked", !.result = "panic"]
                ELSE AfterLoginFlush(
                         LoginFlush([u1 EXCEPT !.identity = TRUE], tick))

\* handle_client_to_server_handshake
handle_client_to_server_handshake(u, input) ==
    LET u1 == [u EXCEPT !.expected = "CacheStatus"]
    IN  IF input = "bad" THEN Err(u1)
        ELSE send_buf(send_buf(send_buf(u1, "PlayStatus"),
                               "ResourcePacksInfo"),
                      "ResourcePackStack")

\* handle_cache_status
handle_cache_status(u, input) ==
    LET u1 == [u EXCEPT !.expected = "ResourcePackClientResponse"]
    IN  IF input = "bad" THEN Err(u1) ELSE u1

\* handle_resource_client_response; self.player()? fails while no player
\* data is stored
handle_resource_client_response(u, input) ==
    LET u1 == [u EXCEPT !.expected = "open"]
    IN  IF input = "bad" \/ ~u1.player THEN Err(u1)
        ELSE send_buf(send_buf(send_buf(send_buf(u1, "StartGame"),
                                        "CreativeContent"),
                               "BiomeDefinitionList"),
                      "PlayStatus")

\* handle_local_initialized; self.name()? fails while no identity is
\* stored, the broadcast goes to the other connections
handle_local_initialized(u, input) ==
    IF input = "bad" THEN Err(u)
    ELSE LET u1 == [u EXCEPT !.expected = "open"]
         IN  IF ~u1.identity THEN Err(u1) ELSE u1

\* handle_violation_warning
handle_violation_warning(u, input) ==
    IF input = "bad" THEN Err(u) ELSE kick(u)

\* BedrockUserLayer::handle_frame_body: the handler is chosen by the
\* header's packet id alone
HandleGameFrameBody(u, id, input, tick) ==
    CASE id = "RequestNetworkSettings" ->
            handle_network_settings_request(u, input)
      [] id = "Login" -> handle_login(u, input, tick)
      [] id = "ClientToServerHandshake" ->
            handle_client_to_server_handshake(u, input)
      [] id = "CacheStatus" -> handle_cache_status(u, input)
      [] id = "ResourcePackClientResponse" ->
            handle_resource_client_response(u, input)
      [] id = "ViolationWarning" -> handle_violation_warning(u, input)
      [] id = "SetLocalPlayerAsInitialized" ->
            handle_local_initialized(u, input)
      [] OTHER -> Err(u)

\* ids the dispatcher has a login-stage arm for
HandledIds ==
    {"RequestNetworkSettings", "Login", "ClientToServerHandshake",
     "CacheStatus", "ResourcePackClientResponse", "ViolationWarning",
     "SetLocalPlayerAsInitialized"}

\* what a dispatch that ended in state u leaves behind
StoreUser(id, input, u) ==
    /\ game_packets' = game_packets + 1
    /\ last_packet' = [id |-> id, expected |-> expected,
                       input |-> input, ran |-> id \in HandledIds,
                       result |-> u.result]
    /\ expected' = u.expected
    /\ compressed' = u.compressed
    /\ identity' = u.identity
    /\ encryptor' = u.encryptor
    /\ send_counter' = u.send_counter
    /\ player' = u.player
    /\ user_status' = u.status
    /\ send_queue' = u.queues
    /\ sends' = u.sends
    /\ batch_number' = u.tx.batch_number
    /\ sequence_index' = u.tx.sequence_index
    /\ ack_index' = u.tx.ack_index
    /\ compound_id' = u.tx.compound_id
    /\ order_index' = u.tx.order_index
    /\ recovery_queue' = u.tx.recovery_queue
    /\ drained' = u.tx.drained
    /\ wire' = u.tx.wire
    /\ send_result' = IF u.flushed THEN u.tx.result ELSE send_result
    /\ IF u.flushed /\ current_tick % 4 = 0 /\ u.tx.result = "ok"
       THEN FlushAcknowledgements
       ELSE UNCHANGED <<acknowledged, acks, reliable_rx>>
    /\ UNCHANGED <<client_batch_number, compounds, order, recv_result,
                   received, arrived, released, reassembled, delivered,
                   current_tick, flusher, debug_assertions, naks, last_ack,
                   nacked, map_vars, more_vars, timer_vars>>

\* one inbound game packet taken through the dispatcher
GamePacket(id, input) ==
    /\ user_status = "active"
    /\ StoreUser(id, input,
                 HandleGameFrameBody(UserState, id, input, current_tick))

\* packets the server sends of its own accord once encryption is on
MaxEncrypted == 2

\* send_buf(buffer, config) for a game packet the server sends to the client
ServerSend(priority) ==
    LET u == send_buf_config(UserState, "GamePacket", priority)
    IN  /\ user_status = "active"
        /\ encryptor
        /\ send_counter < MaxEncrypted
        /\ send_queue' = u.queues
        /\ sends' = u.sends
        /\ send_counter' = u.send_counter
        /\ UNCHANGED <<recv_vars, batch_number, sequence_index, ack_index,
                       compound_id, order_index, recovery_queue,
                       current_tick, flusher, debug_assertions, naks,
                       last_ack, nacked, drained, wire, send_result,
                       expected, compressed, identity, encryptor, player,
                       user_status, game_packets, last_packet, map_vars,
                       more_vars, timer_vars>>

\* what a client can put into a game packet of each kind
GameInputs ==
    ({"RequestNetworkSettings"} \X {"ok", "bad", "newer", "older"})
    \cup ({"Login"} \X {"ok", "bad", "replicator", "key"})
    \cup ({"ClientToServerHandshake", "CacheStatus",
           "ResourcePackClientResponse", "SetLocalPlayerAsInitialized",
           "ViolationWarning"} \X {"ok", "bad"})
    \cup {<<"Unknown", "ok">>}

(***************************************************************************)
(* map.rs: UserMap; instance.rs: process_open_connection_request2          *)
(***************************************************************************)
\* peer addresses datagrams come from
Addrs == {"a1", "a2"}

\* Option::None of a map lookup; users are numbered from 1
NoUser == 0

\* DashMap::new
MapNew == [a \in Addrs |-> NoUser]

\* RaknetUser::new and the two tasks insert spawns for it: the promoter
\* (map.rs 85-97) and the canceller (map.rs 102-106)
UserNew(address) ==
    [address |-> address,
     put |-> FALSE,            \* connecting_map.insert (map.rs 108) done
     ready |-> FALSE,          \* the RakNet layer signalled readiness
     active |-> TRUE,          \* cancellation token not cancelled
     promoter |-> "spawned",   \* "spawned", "holding", "done", "failed"
     held |-> NoUser,          \* entry the promoter took out
     promotions |-> 0,         \* times this user entered connected_map
     early |-> FALSE,          \* entered connected_map before ready
     canceller |-> "waiting",  \* "waiting", "removing", "done"
     task |-> "running"]       \* the connection's task

UserIds == DOMAIN users

\* the connection exists in the map's view and has not been cancelled
Live(id) == users[id].put /\ users[id].active

LiveAt(a) == {id \in UserIds : Live(id) /\ users[id].address = a}

\* receivers of the broadcast channel: one per connection task that runs
Receivers == {id \in UserIds : users[id].task = "running"}

\* process_open_connection_request2 up to and including the two
\* tokio::spawn calls of UserMap::insert
OpenConnectionRequest2(a) ==
    /\ Len(users) < MaxUsers
    /\ users' = Append(users, UserNew(a))
    /\ UNCHANGED <<connecting_map, connected_map, forward_pc, shutdown,
                   join_set, forwarded, broadcasts, at_shutdown, replies>>

\* insert's connecting_map.insert(address, ..) and the reply that
\* process_open_connection_request2 returns
InsertPut(id) ==
    /\ ~users[id].put
    /\ connecting_map' = [connecting_map EXCEPT ![users[id].address] = id]
    /\ users' = [users EXCEPT ![id].put = TRUE]
    /\ replies' = replies + 1
    /\ UNCHANGED <<connected_map, forward_pc, shutdown, join_set,
                   forwarded, broadcasts, at_shutdown>>

\* promoter: connecting_map.remove(&address); nothing is awaited first
PromoterRemove(id) ==
    LET a == users[id].address
    IN  /\ users[id].promoter = "spawned"
        /\ IF connecting_map[a] # NoUser
           THEN /\ users' = [users EXCEPT ![id].promoter = "holding",
                                          ![id].held = connecting_map[a]]
                /\ connecting_map' = [connecting_map EXCEPT ![a] = NoUser]
           ELSE /\ users' = [users EXCEPT ![id].promoter = "failed"]
                /\ UNCHANGED connecting_map
        /\ UNCHANGED <<connected_map, forward_pc, shutdown, join_set,
                       forwarded, broadcasts, at_shutdown, replies>>

\* promoter: connected_map.insert(address, bedrock_user)
PromoterInsert(id) ==
    LET a == users[id].address
        h == users[id].held
    IN  /\ users[id].promoter = "holding"
        /\ connected_map' = [connected_map EXCEPT ![a] = h]
        /\ users' = [[users EXCEPT ![id].promoter = "done"] EXCEPT
                        ![h].promotions = @ + 1,
                        ![h].early = @ \/ ~users[h].ready]
        /\ UNCHANGED <<connecting_map, forward_pc, shutdown, join_set,
                       forwarded, broadcasts, at_shutdown, replies>>

\* the RakNet layer of a connection completes its handshake and signals
RaknetReady(id) ==
    /\ Live(id)
    /\ ~users[id].ready
    /\ users' = [users EXCEPT ![id].ready = TRUE]
    /\ UNCHANGED <<connecting_map, connected_map, forward_pc, shutdown,
                   join_set, forwarded, broadcasts, at_shutdown, replies>>

\* the connection cancels its own token (disconnect, timeout)
Cancel(id) ==
    /\ Live(id)
    /\ users' = [users EXCEPT ![id].active = FALSE]
    /\ UNCHANGED <<connecting_map, connected_map, forward_pc, shutdown,
                   join_set, forwarded, broadcasts, at_shutdown, replies>>

\* canceller: active.cancelled() returned, connected_map.remove(address)
CancellerRemoveConnected(id) ==
    /\ users[id].canceller = "waiting"
    /\ ~users[id].active
    /\ connected_map' = [connected_map EXCEPT ![users[id].address] = NoUser]
    /\ users' = [users EXCEPT ![id].canceller = "removing"]
    /\ UNCHANGED <<connecting_map, forward_pc, shutdown, join_set,
                   forwarded, broadcasts, at_shutdown, replies>>

\* canceller: connecting_map.remove(address)
CancellerRemoveConnecting(id) ==
    /\ users[id].canceller = "removing"
    /\ connecting_map' =
           [connecting_map EXCEPT ![users[id].address] = NoUser]
    /\ users' = [users EXCEPT ![id].canceller = "done"]
    /\ UNCHANGED <<connected_map, forward_pc, shutdown, join_set,
                   forwarded, broadcasts, at_shutdown, replies>>

\* the connection's task sees its token cancelled and returns
TaskExit(id) ==
    /\ ~users[id].active
    /\ users[id].task = "running"
    /\ users' = [users EXCEPT ![id].task = "finished"]
    /\ UNCHANGED <<connecting_map, connected_map, forward_pc, shutdown,
                   join_set, forwarded, broadcasts, at_shutdown, replies>>

\* forward: the connected_map lookup
ForwardConnected(a) ==
    /\ forward_pc.pc = "idle"
    /\ IF connected_map[a] # NoUser
       THEN /\ forwarded' =
                   [to |-> connected_map[a], live |-> TRUE]
            /\ UNCHANGED forward_pc
       ELSE /\ forward_pc' = [pc |-> "connecting", addr |-> a,
                              live |-> LiveAt(a)]
            /\ UNCHANGED forwarded
    /\ UNCHANGED <<connecting_map, connected_map, users, shutdown,
                   join_set, broadcasts, at_shutdown, replies>>

\* forward: the connecting_map lookup, else Ok(()) with the datagram
\* dropped; live tells whether a connection of the address was live for
\* the whole call
ForwardConnecting ==
    LET a == forward_pc.addr
    IN  /\ forward_pc.pc = "connecting"
        /\ forwarded' =
               [to |-> connecting_map[a],
                live |-> forward_pc.live \cap LiveAt(a) # {}]
        /\ forward_pc' = [pc |-> "idle", addr |-> "none", live |-> {}]
        /\ UNCHANGED <<connecting_map, connected_map, users, shutdown,
                       join_set, broadcasts, at_shutdown, replies>>

\* users that have an entry in one of the two maps
InMaps ==
    ({connecting_map[a] : a \in Addrs}
        \cup {connected_map[a] : a \in Addrs}) \ {NoUser}

\* shutdown's kick_all: broadcast.send(..)? fails without a receiver, else
\* the token of every connected_map entry is cancelled
ShutdownKickAll ==
    /\ shutdown = "idle"
    /\ at_shutdown' = InMaps
    /\ IF Receivers = {}
       THEN /\ shutdown' = "failed"
            /\ UNCHANGED <<broadcasts, users>>
       ELSE /\ shutdown' = "kicked"
            /\ broadcasts' = broadcasts + 1
            /\ users' = [id \in UserIds |->
                            IF \E a \in Addrs : connected_map[a] = id
                            THEN [users[id] EXCEPT !.active = FALSE]
                            ELSE users[id]]
    /\ UNCHANGED <<connecting_map, connected_map, forward_pc, join_set,
                   forwarded, replies>>

\* shutdown: connected_map.retain moves every handle into the JoinSet and
\* keeps no entry
ShutdownRetain ==
    /\ shutdown = "kicked"
    /\ join_set' = {connected_map[a] : a \in Addrs} \ {NoUser}
    /\ connected_map' = MapNew
    /\ shutdown' = "joining"
    /\ UNCHANGED <<connecting_map, users, forward_pc, forwarded,
                   broadcasts, at_shutdown, replies>>

\* shutdown: join_next() until the JoinSet is empty, then Ok(())
ShutdownJoin ==
    /\ shutdown = "joining"
    /\ \A id \in join_set : users[id].task = "finished"
    /\ shutdown' = "returned"
    /\ UNCHANGED <<connecting_map, connected_map, users, forward_pc,
                   join_set, forwarded, broadcasts, at_shutdown, replies>>

(***************************************************************************)
(* instance.rs: Instance::run, signal_listener, net_receiver               *)
(***************************************************************************)
\* the sockets a receive loop was spawned for
RecvJobs == {"ipv4", "ipv6"}

\* signal_listener: the ctrl_c arm of its select
SignalCtrlC ==
    /\ run_pc = "signal"
    /\ run_pc' = "join"
    /\ UNCHANGED <<token, recv_job>>

\* signal_listener: the token.cancelled() arm of its select
SignalToken ==
    /\ run_pc = "signal"
    /\ token
    /\ run_pc' = "join"
    /\ UNCHANGED <<token, recv_job>>

\* a holder of a clone of the token (the command service, the level
\* service) cancels it
ServiceCancel ==
    /\ ~token
    /\ token' = TRUE
    /\ UNCHANGED <<run_pc, recv_job>>

\* _ = self.user_map.join().await: the result is dropped
UserMapJoined ==
    /\ run_pc = "join"
    /\ shutdown \in {"returned", "failed"}
    /\ run_pc' = "cancel"
    /\ UNCHANGED <<token, recv_job>>

\* self.token.cancel()
TokenCancel ==
    /\ run_pc = "cancel"
    /\ token' = TRUE
    /\ run_pc' = "await"
    /\ UNCHANGED recv_job

\* net_receiver: _ = token.cancelled() => break
ReceiverBreak(j) ==
    /\ recv_job[j] = "running"
    /\ token
    /\ recv_job' = [recv_job EXCEPT ![j] = "closed"]
    /\ UNCHANGED <<run_pc, token>>

\* recv_job4.await and recv_job6.await
AwaitReceivers ==
    /\ run_pc = "await"
    /\ \A j \in RecvJobs : recv_job[j] = "closed"
    /\ run_pc' = "done"
    /\ UNCHANGED <<token, recv_job>>

(***************************************************************************)
(* open_connection_request1.rs, open_connection_reply1.rs, instance.rs:    *)
(* the first offline handshake packet                                      *)
(***************************************************************************)
RAKNET_VERSION == 11
RECV_BUF_SIZE == 4096

\* the 16 bytes of the offline message magic
OFFLINE_MESSAGE_DATA ==
    <<0, 255, 255, 0, 254, 254, 254, 254, 253, 253, 253, 253, 18, 52, 86, 120>>

Zeros(n) == [i \in 1..n |-> 0]

\* the bytes left after the first n, all of them when n is past the end
Drop(buf, n) == SubSeq(buf, n + 1, Len(buf))

write_u16_be(v) == <<v \div 256, v % 256>>

read_u16_be(bytes) == bytes[1] * 256 + bytes[2]

\* the mtu is taken from what is left of the packet after its header
OpenConnectionRequest1DeserializeAfterHeader(buf) ==
    IF buf = <<>> \/ buf[1] # 5 \/ Len(buf) < 18
    THEN [result |-> "err", protocol_version |-> 0, mtu |-> 0]
    ELSE [result |-> "ok", protocol_version |-> buf[18],
          mtu |-> (((Len(buf) - 18) % 65536) + 28) % 65536]

\* let mtu = reader.remaining() as u16 + 28 comes first; then the ID is
\* read, advance(16) skips the magic (its result is dropped, a short
\* packet is not advanced) and the protocol version is read
OpenConnectionRequest1Deserialize(buf) ==
    IF buf = <<>> \/ buf[1] # 5
    THEN [result |-> "err", protocol_version |-> 0, mtu |-> 0]
    ELSE IF Drop(buf, IF Len(buf) - 1 < 16 THEN 1 ELSE 17) = <<>>
    THEN [result |-> "err", protocol_version |-> 0, mtu |-> 0]
    ELSE [result |-> "ok",
          protocol_version |->
              Drop(buf, IF Len(buf) - 1 < 16 THEN 1 ELSE 17)[1],
          mtu |-> ((Len(buf) % 65536) + 28) % 65536]

\* IncompatibleProtocol (0x19) with the server GUID
IncompatibleProtocolBytes(server_guid) == <<25>> \o server_guid

\* OpenConnectionReply1::serialize
OpenConnectionReply1Bytes(server_guid, mtu) ==
    <<6>> \o OFFLINE_MESSAGE_DATA \o server_guid \o <<0>> \o write_u16_be(mtu)

ReplyOf(request, server_guid) ==
    IF request.result # "ok" THEN <<>>
    ELSE IF request.protocol_version # RAKNET_VERSION
    THEN IncompatibleProtocolBytes(server_guid)
    ELSE OpenConnectionReply1Bytes(server_guid, request.mtu)

process_open_connection_request1(buf, server_guid) ==
    ReplyOf(OpenConnectionRequest1Deserialize(buf), server_guid)

\* the padding of the requests a client probes the MTU with
MinPadding == 1400
MaxPadding == 1464

ProtocolVersions == {10, 11}

\* server_guid, as the eight bytes write_u64_be puts out
Guids == {<<0, 0, 0, 0, 0, 0, 0, 1>>, <<1, 2, 3, 4, 5, 6, 7, 8>>}

Request1Bytes(protocol, padding) ==
    <<5>> \o OFFLINE_MESSAGE_DATA \o <<protocol>> \o Zeros(padding)

\* net_receiver takes an OpenConnectionRequest1 and builds the reply
Request1Packet(protocol, padding, server_guid) ==
    /\ Len(Request1Bytes(protocol, padding)) <= RECV_BUF_SIZE
    /\ offline_io' =
           [len |-> Len(Request1Bytes(protocol, padding)),
            protocol |-> protocol,
            magic |-> OFFLINE_MESSAGE_DATA,
            reply |-> process_open_connection_request1(
                          Request1Bytes(protocol, padding), server_guid)]
    /\ UNCHANGED <<recv_vars, send_vars, login_vars, map_vars, run_vars,
                   timer_vars, u24_io, var_io, frame_io,
                   compress_io, guid_io>>

\* requests whose 16 bytes after the ID are not the offline message magic,
\* or are missing: zeros, the magic with its last byte changed, and the ID
\* followed by the protocol version alone
OtherMagicRequests ==
    {<<5>> \o magic \o <<protocol>> \o Zeros(padding) :
        magic \in {Zeros(16),
                   [OFFLINE_MESSAGE_DATA EXCEPT ![16] = 121]},
        protocol \in ProtocolVersions, padding \in {0, 2}}
    \cup {<<5, protocol>> : protocol \in ProtocolVersions}

\* net_receiver takes the bytes buf, whose first byte is 0x05
Request1Raw(buf, server_guid) ==
    /\ offline_io' =
           [len |-> Len(buf),
            protocol |-> OpenConnectionRequest1Deserialize(buf)
                            .protocol_version,
            magic |-> SubSeq(buf, 2, Min(Len(buf), 17)),
            reply |-> process_open_connection_request1(buf, server_guid)]
    /\ UNCHANGED <<recv_vars, send_vars, login_vars, map_vars, run_vars,
                   timer_vars, u24_io, var_io, frame_io,
                   compress_io, guid_io>>

(***************************************************************************)
(* util bytes/read.rs: 24-bit integers.  A u32 that a reader returns is    *)
(* held as its two 16-bit halves [hi, lo], the value being                 *)
(* hi * 65536 + lo.                                                        *)
(***************************************************************************)
\* nothing has been read yet
NoRead == [result |-> "none"]

U32(hi, lo) == [hi |-> hi, lo |-> lo]

\* the u32 with the value v, for 0 <= v < 2^31
ToU32(v) == U32(v \div 65536, v % 65536)

\* u32::from_le_bytes
from_le_bytes(b) == U32(b[3] + 256 * b[4], b[1] + 256 * b[2])

\* write_u24_le: the three low bytes, least significant first
write_u24_le(v) == <<v % 256, (v \div 256) % 256, (v \div 65536) % 256>>

\* read_u24_le: take_const::<3>(), then
\* u32::from_le_bytes([0, bytes[0], bytes[1], bytes[2]])
read_u24_le(buf) ==
    IF Len(buf) < 3 THEN [result |-> "UnexpectedEof"]
    ELSE [result |-> "ok",
          value |-> from_le_bytes(<<0, buf[1], buf[2], buf[3]>>),
          rest |-> Drop(buf, 3)]

\* a buffer is read as a u24
ReadU24(buf) ==
    /\ u24_io' = [bytes |-> buf, read |-> read_u24_le(buf)]
    /\ UNCHANGED <<recv_vars, send_vars, login_vars, map_vars, run_vars,
                   timer_vars, offline_io, var_io, frame_io,
                   compress_io, guid_io>>

\* the values written and read back, 0..MaxU24 and those of the test
MaxU24 == 130

U24Values == (0..MaxU24) \cup {50250, 1097359, U24Limit - 1}

\* bytes that no writer put there
U24Bytes == {<<b0, b1, b2>> : b0 \in {0, 1, 255}, b1 \in {0, 255},
                             b2 \in {0, 128, 255}} \cup {<<1, 2>>}

(***************************************************************************)
(* util bytes/read.rs: variable-length 32-bit integers                     *)
(***************************************************************************)
\* a | b on two values below 2^16
RECURSIVE BitOr(_, _)
BitOr(a, b) ==
    IF a = 0 THEN b
    ELSE IF b = 0 THEN a
    ELSE 2 * BitOr(a \div 2, b \div 2)
             + (IF a % 2 = 1 \/ b % 2 = 1 THEN 1 ELSE 0)

\* v | c on u32
U32Or(v, c) == U32(BitOr(v.hi, c.hi), BitOr(v.lo, c.lo))

\* (x as u32) << i for x below 128: the bits past bit 31 are dropped
U32Shl(x, i) ==
    IF i < 16
    THEN U32((x * 2^i) \div 65536, (x * 2^i) % 65536)
    ELSE U32((x * 2^(i - 16)) % 65536, 0)

\* v >> 7 on u32
U32Shr7(v) == U32(v.hi \div 128, (v.lo \div 128) + (v.hi % 128) * 512)

\* write_var_u32: seven bits a byte, least significant first, the high bit
\* set on every byte but the last
RECURSIVE write_var_u32(_)
write_var_u32(v) ==
    IF v.hi > 0 \/ v.lo >= 128
    THEN <<(v.lo % 128) + 128>> \o write_var_u32(U32Shr7(v))
    ELSE <<v.lo>>

\* the loop of read_var_u32, left when i reaches limit
RECURSIVE ReadVarLoop(_, _, _, _)
ReadVarLoop(buf, v, i, limit) ==
    IF i >= limit THEN [result |-> "Malformed"]
    ELSE IF buf = <<>> THEN [result |-> "UnexpectedEof"]
    ELSE IF Head(buf) < 128
    THEN [result |-> "ok",
          value |-> U32Or(v, U32Shl(Head(buf) % 128, i)),
          rest |-> Tail(buf)]
    ELSE ReadVarLoop(Tail(buf), U32Or(v, U32Shl(Head(buf) % 128, i)),
                     i + 7, limit)

\* a reader that gives up after four bytes
read_var_u32_short(buf) == ReadVarLoop(buf, U32(0, 0), 0, 28)

\* read_var_u32: while i < 35 { ... i += 7 }, then bail!(Malformed)
read_var_u32(buf) == ReadVarLoop(buf, U32(0, 0), 0, 35)

\* a value is written and read back
WriteReadVar(v) ==
    /\ var_io' = [wrote |-> TRUE, written |-> v,
                  bytes |-> write_var_u32(v),
                  read |-> read_var_u32(write_var_u32(v))]
    /\ UNCHANGED <<recv_vars, send_vars, login_vars, map_vars, run_vars,
                   timer_vars, offline_io, u24_io, frame_io,
                   compress_io, guid_io>>

\* bytes that no writer put there are read
ReadVar(buf) ==
    /\ var_io' = [wrote |-> FALSE, written |-> U32(0, 0), bytes |-> buf,
                  read |-> read_var_u32(buf)]
    /\ UNCHANGED <<recv_vars, send_vars, login_vars, map_vars, run_vars,
                   timer_vars, offline_io, u24_io, frame_io,
                   compress_io, guid_io>>

\* the values written: low halves 0..MaxVarLo and the boundaries of the
\* byte counts, under high halves that reach u32::MAX
MaxVarLo == 16

VarLo == (0..MaxVarLo) \cup {45, 127, 128, 2769, 16383, 16384, 18872, 39820,
                             65535}

VarHi == {0, 1, 31, 32, 4095, 4096, 5489, 65535}

\* encodings that no writer produces: one that goes on past five bytes,
\* one cut short, one with bits past bit 31, and the bytes of the test
VarBytes ==
    { <<128, 128, 128, 128, 128>>, <<255, 255, 255, 255, 255, 1>>,
      <<128, 128, 128, 128, 128, 0>>, <<128>>, <<255, 255>>, <<>>,
      <<255, 255, 255, 255, 127>>, <<128, 0>>, <<193, 233, 51>> }

(***************************************************************************)
(* core raknet/frame.rs: the bytes of a frame batch.  The u32 fields of a  *)
(* frame on this side are held as [hi, lo], as the readers return them.    *)
(***************************************************************************)
CONNECTED_PEER_BIT_FLAG == 128

COMPOUND_BIT_FLAG == 16

\* Reliability as u8 (raknet/reliability.rs, not in the tree): the order
\* in which spec.md section 3 lists the modes
ReliabilityCodes ==
    <<"Unreliable", "UnreliableSequenced", "Reliable", "ReliableOrdered",
      "ReliableSequenced", "UnreliableWithAckReceipt",
      "ReliableWithAckReceipt", "ReliableOrderedWithAckReceipt">>

ReliabilityAsU8(r) ==
    CHOOSE c \in 0..7 : ReliabilityCodes[c + 1] = r

\* Reliability::try_from(u8)
ReliabilityTryFrom(c) == ReliabilityCodes[c + 1]

\* u32 -> u24: try_into fails from 2^24 on
U24TryFrom(v) ==
    IF v.hi < 256 THEN [result |-> "ok", value |-> v.hi * 65536 + v.lo]
    ELSE [result |-> "TryFromIntError"]

write_u32_be(v) ==
    <<v.hi \div 256, v.hi % 256, v.lo \div 256, v.lo % 256>>

read_u32_be(bytes) ==
    U32(bytes[1] * 256 + bytes[2], bytes[3] * 256 + bytes[4])

CodecFrameDefault ==
    [reliability |-> "Unreliable", reliable_index |-> U32(0, 0),
     sequence_index |-> U32(0, 0), is_compound |-> FALSE, compound_id |-> 0,
     compound_size |-> U32(0, 0), compound_index |-> U32(0, 0),
     order_index |-> U32(0, 0), order_channel |-> 0, body |-> <<>>]

\* the u32 fields that Frame::serialize writes as u24
FrameU24Fields(frame) ==
    (IF is_reliable(frame.reliability) THEN {frame.reliable_index} ELSE {})
    \cup (IF is_sequenced(frame.reliability)
          THEN {frame.sequence_index} ELSE {})
    \cup (IF is_ordered(frame.reliability) THEN {frame.order_index} ELSE {})

\* Frame::serialize, every try_into having succeeded
FrameSerializeBytes(frame) ==
    <<ReliabilityAsU8(frame.reliability) * 32
        + (IF frame.is_compound THEN COMPOUND_BIT_FLAG ELSE 0)>>
    \o write_u16_be(((Len(frame.body) % 65536) * 8) % 65536)
    \o (IF is_reliable(frame.reliability)
        THEN write_u24_le(U24TryFrom(frame.reliable_index).value) ELSE <<>>)
    \o (IF is_sequenced(frame.reliability)
        THEN write_u24_le(U24TryFrom(frame.sequence_index).value) ELSE <<>>)
    \o (IF is_ordered(frame.reliability)
        THEN write_u24_le(U24TryFrom(frame.order_index).value)
             \o <<frame.order_channel>>
        ELSE <<>>)
    \o (IF frame.is_compound
        THEN write_u32_be(frame.compound_size)
             \o write_u16_be(frame.compound_id)
             \o write_u32_be(frame.compound_index)
        ELSE <<>>)
    \o frame.body

\* Frame::serialize
FrameSerialize(frame) ==
    IF \E v \in FrameU24Fields(frame) : U24TryFrom(v).result # "ok"
    THEN [result |-> "TryFromIntError"]
    ELSE [result |-> "ok", bytes |-> FrameSerializeBytes(frame)]

RECURSIVE FramesSerialize(_)
FramesSerialize(frames) ==
    IF frames = <<>> THEN [result |-> "ok", bytes |-> <<>>]
    ELSE IF FrameSerialize(Head(frames)).result # "ok"
    THEN FrameSerialize(Head(frames))
    ELSE IF FramesSerialize(Tail(frames)).result # "ok"
    THEN FramesSerialize(Tail(frames))
    ELSE [result |-> "ok",
          bytes |-> FrameSerialize(Head(frames)).bytes
                    \o FramesSerialize(Tail(frames)).bytes]

\* FrameBatch::serialize
FrameBatchSerialize(batch) ==
    IF U24TryFrom(batch.sequence_number).result # "ok"
    THEN [result |-> "TryFromIntError"]
    ELSE IF FramesSerialize(batch.frames).result # "ok"
    THEN FramesSerialize(batch.frames)
    ELSE [result |-> "ok",
          bytes |-> <<CONNECTED_PEER_BIT_FLAG>>
                    \o write_u24_le(U24TryFrom(batch.sequence_number).value)
                    \o FramesSerialize(batch.frames).bytes]

UnexpectedEof == [result |-> "UnexpectedEof"]

\* Frame::deserialize: take_n(length) is the body
FrameDeserializeBody(buf, frame, length) ==
    IF Len(buf) < length THEN UnexpectedEof
    ELSE [result |-> "ok",
          frame |-> [frame EXCEPT !.body = SubSeq(buf, 1, length)],
          rest |-> Drop(buf, length)]

\* Frame::deserialize: the compound fields
FrameDeserializeCompound(buf, frame, length) ==
    IF ~frame.is_compound THEN FrameDeserializeBody(buf, frame, length)
    ELSE IF Len(buf) < 10 THEN UnexpectedEof
    ELSE FrameDeserializeBody(
             Drop(buf, 10),
             [frame EXCEPT !.compound_size = read_u32_be(buf),
                           !.compound_id = read_u16_be(Drop(buf, 4)),
                           !.compound_index = read_u32_be(Drop(buf, 6))],
             length)

\* Frame::deserialize: order_index and order_channel
FrameDeserializeOrder(buf, frame, length) ==
    IF ~is_ordered(frame.reliability)
    THEN FrameDeserializeCompound(buf, frame, length)
    ELSE IF Len(buf) < 4 THEN UnexpectedEof
    ELSE FrameDeserializeCompound(
             Drop(buf, 4),
             [frame EXCEPT !.order_index = read_u24_le(buf).value,
                           !.order_channel = buf[4]],
             length)

\* Frame::deserialize: sequence_index
FrameDeserializeSequence(buf, frame, length) ==
    IF ~is_sequenced(frame.reliability)
    THEN FrameDeserializeOrder(buf, frame, length)
    ELSE IF Len(buf) < 3 THEN UnexpectedEof
    ELSE FrameDeserializeOrder(
             Drop(buf, 3),
             [frame EXCEPT !.sequence_index = read_u24_le(buf).value],
             length)

\* Frame::deserialize: reliable_index
FrameDeserializeReliable(buf, frame, length) ==
    IF ~is_reliable(frame.reliability)
    THEN FrameDeserializeSequence(buf, frame, length)
    ELSE IF Len(buf) < 3 THEN UnexpectedEof
    ELSE FrameDeserializeSequence(
             Drop(buf, 3),
             [frame EXCEPT !.reliable_index = read_u24_le(buf).value],
             length)

\* Frame::deserialize
FrameDeserialize(buf) ==
    IF Len(buf) < 3 THEN UnexpectedEof
    ELSE FrameDeserializeReliable(
             Drop(buf, 3),
             [CodecFrameDefault EXCEPT
                 !.reliability = ReliabilityTryFrom(buf[1] \div 32),
                 !.is_compound = (buf[1] \div COMPOUND_BIT_FLAG) % 2 = 1],
             read_u16_be(Drop(buf, 1)) \div 8)

\* FrameBatch::deserialize: while !reader.eof()
RECURSIVE FramesDeserialize(_, _)
FramesDeserialize(buf, frames) ==
    IF buf = <<>> THEN [result |-> "ok", frames |-> frames]
    ELSE IF FrameDeserialize(buf).result # "ok" THEN UnexpectedEof
    ELSE FramesDeserialize(FrameDeserialize(buf).rest,
                           Append(frames, FrameDeserialize(buf).frame))

\* FrameBatch::deserialize
FrameBatchDeserialize(buf) ==
    IF Len(buf) < 4 THEN UnexpectedEof
    ELSE IF FramesDeserialize(Drop(buf, 4), <<>>).result # "ok"
    THEN UnexpectedEof
    ELSE [result |-> "ok",
          batch |-> [sequence_number |-> read_u24_le(Drop(buf, 1)).value,
                     frames |-> FramesDeserialize(Drop(buf, 4), <<>>).frames]]

FrameBatchDefault == [sequence_number |-> U32(0, 0), frames |-> <<>>]

\* a batch is serialized and the bytes are deserialized
WriteReadFrameBatch(batch) ==
    /\ frame_io' =
           [wrote |-> TRUE, batch |-> batch,
            bytes |-> IF FrameBatchSerialize(batch).result = "ok"
                      THEN FrameBatchSerialize(batch).bytes ELSE <<>>,
            read |-> IF FrameBatchSerialize(batch).result = "ok"
                     THEN FrameBatchDeserialize(
                              FrameBatchSerialize(batch).bytes)
                     ELSE FrameBatchSerialize(batch)]
    /\ UNCHANGED <<recv_vars, send_vars, login_vars, map_vars, run_vars,
                   timer_vars, offline_io, u24_io, var_io,
                   compress_io, guid_io>>

\* a datagram that no FrameBatch::serialize produced is deserialized
ReadFrameBatch(buf) ==
    /\ frame_io' = [wrote |-> FALSE, batch |-> FrameBatchDefault,
                    bytes |-> buf, read |-> FrameBatchDeserialize(buf)]
    /\ UNCHANGED <<recv_vars, send_vars, login_vars, map_vars, run_vars,
                   timer_vars, offline_io, u24_io, var_io,
                   compress_io, guid_io>>

\* the indices of the frames written, and the lengths of their bodies
MaxFrameIndex == 300

MaxBodyLen == 2

Reliabilities == {ReliabilityCodes[i] : i \in DOMAIN ReliabilityCodes}

\* a frame whose absent fields are zero: the indices are index where the
\* reliability carries them, the compound fields are set iff is_compound
CodecFrame(reliability, is_compound, index, len) ==
    [reliability |-> reliability,
     reliable_index |-> IF is_reliable(reliability)
                        THEN ToU32(index) ELSE U32(0, 0),
     sequence_index |-> IF is_sequenced(reliability)
                        THEN ToU32(index) ELSE U32(0, 0),
     is_compound |-> is_compound,
     compound_id |-> IF is_compound THEN 5 ELSE 0,
     compound_size |-> IF is_compound THEN ToU32(2) ELSE U32(0, 0),
     compound_index |-> IF is_compound THEN ToU32(1) ELSE U32(0, 0),
     order_index |-> IF is_ordered(reliability)
                     THEN ToU32(index) ELSE U32(0, 0),
     order_channel |-> IF is_ordered(reliability) THEN 3 ELSE 0,
     body |-> [i \in 1..len |-> 16 * i + 1]]

CodecFrames ==
    {CodecFrame(r, c, index, MaxBodyLen) :
        r \in Reliabilities, c \in BOOLEAN, index \in {0, MaxFrameIndex}}
    \cup {CodecFrame("Unreliable", FALSE, 0, 0),
          CodecFrame("ReliableOrdered", TRUE, 1, 0)}

\* no frame, one frame, or one frame behind a reliable ordered one
CodecFrameLists ==
    {<<>>} \cup {<<f>> : f \in CodecFrames}
    \cup {<<CodecFrame("ReliableOrdered", FALSE, 1, 1), f>> :
             f \in CodecFrames}

\* sequence numbers below 2^24, and 2^24 itself
CodecSequenceNumbers == {ToU32(0), ToU32(1), ToU32(U24Limit - 1)}

CodecBatches ==
    {[sequence_number |-> s, frames |-> fs] :
        s \in CodecSequenceNumbers, fs \in CodecFrameLists}
    \cup {[sequence_number |-> ToU32(U24Limit), frames |-> <<>>]}

\* datagrams cut short, and one with every field zero
CodecDatagrams ==
    {<<128>>, <<128, 0, 0, 0>>, <<128, 0, 0, 0, 96, 0>>,
     <<128, 0, 0, 0, 0, 0, 8>>, <<128, 0, 0, 0, 0, 0, 8, 9>>}

(***************************************************************************)
(* send.rs send_buf, receive.rs handle_encrypted_frame: compression        *)
(***************************************************************************)
\* send_buf: what becomes of a payload of len bytes
SendBufOut(compression_enabled, algorithm, threshold, len) ==
    IF compression_enabled /\ len > threshold
    THEN IF algorithm = "Snappy"
         THEN "panic"       \* unimplemented!("Snappy compression")
         ELSE "compressed"  \* DeflateEncoder
    ELSE "plain"

\* handle_encrypted_frame: whether an inbound payload of len bytes is
\* taken as compressed
TakenAsCompressed(is_compressed, threshold, len) ==
    is_compressed /\ threshold # 0 /\ len > threshold

\* a payload of len bytes goes through send_buf under the configuration
SendBufPayload(enabled, algorithm, threshold, len) ==
    /\ compress_io' =
           [enabled |-> enabled, algorithm |-> algorithm,
            threshold |-> threshold, len |-> len,
            sent |-> SendBufOut(enabled, algorithm, threshold, len),
            inflate |-> TakenAsCompressed(enabled, threshold, len)]
    /\ UNCHANGED <<recv_vars, send_vars, login_vars, map_vars, run_vars,
                   timer_vars, offline_io, u24_io, var_io, frame_io,
                   guid_io>>

\* the configured thresholds and the payload lengths tried
MaxThreshold == 3

MaxPayloadLen == 15

(***************************************************************************)
(* instance.rs net_receiver: the server GUID of the offline replies        *)
(***************************************************************************)
\* a receive job that has not drawn its GUID yet
NoGuid == <<>>

\* the packets that carry server_guid: UnconnectedPong, IncompatibleProtocol,
\* OpenConnectionReply1, OpenConnectionReply2
GuidReplies ==
    {"UnconnectedPong", "IncompatibleProtocol", "OpenConnectionReply1",
     "OpenConnectionReply2"}

\* net_receiver starts on socket j: let server_guid = rand::random()
NetReceiverStart(j, server_guid) ==
    /\ guid_io.guid[j] = NoGuid
    /\ guid_io' = [guid_io EXCEPT !.guid[j] = server_guid]
    /\ UNCHANGED <<recv_vars, send_vars, login_vars, map_vars, run_vars,
                   timer_vars, offline_io, u24_io, var_io, frame_io,
                   compress_io>>

\* the task net_receiver spawns for an unconnected packet sends its reply
\* with the server_guid of the job that received the packet
OfflineReply(j, reply) ==
    /\ guid_io.guid[j] # NoGuid
    /\ recv_job[j] = "running"
    /\ guid_io' = [guid_io EXCEPT
                      !.sent = @ \cup {[socket |-> j, reply |-> reply,
                                        server_guid |-> guid_io.guid[j]]}]
    /\ UNCHANGED <<recv_vars, send_vars, login_vars, map_vars, run_vars,
                   timer_vars, offline_io, u24_io, var_io, frame_io,
                   compress_io>>

(***************************************************************************)
(* Specifications                                                          *)
(***************************************************************************)
Init ==
    /\ client_batch_number = 0
    /\ acknowledged = <<>>
    /\ compounds = <<>>
    /\ order = [c \in 0..(ORDER_CHANNEL_COUNT - 1) |-> OrderChannelNew]
    /\ recv_result = "ok"
    /\ received = 0
    /\ arrived = {}
    /\ released = <<>>
    /\ reassembled = <<>>
    /\ delivered = <<>>
    /\ reliable_rx = {}
    /\ acks = <<>>
    /\ send_queue = SendQueuesNew
    /\ batch_number = 0
    /\ sequence_index = 0
    /\ ack_index = 0
    /\ compound_id = 0
    /\ order_index = [c \in 0..(ORDER_CHANNEL_COUNT - 1) |-> 0]
    /\ recovery_queue = <<>>
    /\ current_tick = 0
    /\ flusher = "running"
    /\ debug_assertions \in BOOLEAN
    /\ sends = 0
    /\ naks = 0
    /\ last_ack = [seqs |-> {}, queue |-> <<>>]
    /\ nacked = {}
    /\ drained = {}
    /\ wire = <<>>
    /\ send_result = "ok"
    /\ expected = "RequestNetworkSettings"
    /\ compressed = FALSE
    /\ identity = FALSE
    /\ encryptor = FALSE
    /\ send_counter = 0
    /\ player = FALSE
    /\ user_status = "active"
    /\ game_packets = 0
    /\ last_packet = [id |-> "none", expected |-> "RequestNetworkSettings",
                      input |-> "ok", ran |-> FALSE, result |-> "ok"]
    /\ connecting_map = MapNew
    /\ connected_map = MapNew
    /\ users = <<>>
    /\ forward_pc = [pc |-> "idle", addr |-> "none", live |-> {}]
    /\ shutdown = "idle"
    /\ join_set = {}
    /\ forwarded = [to |-> NoUser, live |-> FALSE]
    /\ broadcasts = 0
    /\ at_shutdown = {}
    /\ replies = 0
    /\ run_pc = "signal"
    /\ token = FALSE
    /\ recv_job = [j \in RecvJobs |-> "running"]
    /\ offline_io = [len |-> 0, protocol |-> 0,
                     magic |-> OFFLINE_MESSAGE_DATA, reply |-> <<>>]
    /\ u24_io = [bytes |-> <<>>, read |-> NoRead]
    /\ var_io = [wrote |-> FALSE, written |-> U32(0, 0), bytes |-> <<>>,
                 read |-> NoRead]
    /\ frame_io = [wrote |-> FALSE, batch |-> FrameBatchDefault,
                   bytes |-> <<>>, read |-> NoRead]
    /\ compress_io = [enabled |-> FALSE, algorithm |-> "Deflate",
                      threshold |-> 1, len |-> 0, sent |-> "none",
                      inflate |-> FALSE]
    /\ guid_io = [guid |-> [j \in RecvJobs |-> NoGuid], sent |-> {}]
    /\ now = 0
    /\ last_update = 0
    /\ active = TRUE
    /\ last_datagram = 0

Receive ==
    /\ received < MaxRecv
    /\ \E batch \in RecvBatches : ReceiveFrameBatch(batch)

AckReceive ==
    /\ received < MaxAckRecv
    /\ \E batch \in AckBatches : ReceiveFrameBatch(batch)

Send == \E c \in SendInputs, p \in Priorities : SendRawBuf(c[1], p, c[2])

Nack == \E n \in NakSeqs : HandleNack({n})

Ack == \E seqs \in AckSeqs : HandleAck(seqs)

\* the inbound frame pipeline
NextRecv == Receive

SpecRecv == Init /\ [][NextRecv]_vars

\* inbound datagrams and the tick that flushes acknowledgements
NextAck == AckReceive \/ Tick

SpecAck == Init /\ [][NextAck]_vars

\* the outbound pipeline with the peer's ACKs and NAKs
NextSend == Send \/ Tick \/ Nack \/ Ack

SpecSend == Init /\ [][NextSend]_vars

\* reliable sends that fit a datagram, the ticks that emit and store them,
\* and the peer's ACKs
SendReliable ==
    \E p \in {"High", "Low"} : SendRawBuf("ReliableOrdered", p, LenSmall)

NextAcked == SendReliable \/ Tick \/ Ack

SpecAcked == Init /\ [][NextAcked]_vars

\* the login sequence of one connection and the tick that flushes
Game ==
    /\ game_packets < MaxGamePackets
    /\ \E c \in GameInputs : GamePacket(c[1], c[2])

NextLogin == Game \/ Tick

SpecLogin == Init /\ [][NextLogin]_vars

\* the login sequence, then packets of the server at every priority
ServerSends == \E p \in Priorities : ServerSend(p)

NextEncrypted == Game \/ Tick \/ ServerSends

SpecEncrypted == Init /\ [][NextEncrypted]_vars

\* datagrams of a peer that does not keep to the protocol, and its game
\* packets
ReceiveHostile ==
    /\ received < MaxRecv
    /\ \E batch \in HostileBatches : ReceiveFrameBatch(batch)

NextHostile == ReceiveHostile \/ Game

SpecHostile == Init /\ [][NextHostile]_vars

\* the user map: the receive loop, the spawned tasks, the connections
Offline ==
    /\ \E a \in Addrs : OpenConnectionRequest2(a)
    /\ UNCHANGED <<recv_vars, send_vars, login_vars, more_vars, timer_vars>>

MapTask ==
    /\ \E id \in UserIds :
           \/ InsertPut(id)
           \/ PromoterRemove(id)
           \/ PromoterInsert(id)
           \/ CancellerRemoveConnected(id)
           \/ CancellerRemoveConnecting(id)
    /\ UNCHANGED <<recv_vars, send_vars, login_vars, more_vars, timer_vars>>

Connection ==
    /\ \E id \in UserIds : RaknetReady(id) \/ Cancel(id) \/ TaskExit(id)
    /\ UNCHANGED <<recv_vars, send_vars, login_vars, more_vars, timer_vars>>

Forward ==
    /\ (\E a \in Addrs : ForwardConnected(a)) \/ ForwardConnecting
    /\ UNCHANGED <<recv_vars, send_vars, login_vars, more_vars, timer_vars>>

Shutdown ==
    /\ ShutdownKickAll \/ ShutdownRetain \/ ShutdownJoin
    /\ UNCHANGED <<recv_vars, send_vars, login_vars, more_vars, timer_vars>>

\* connections coming and going under the receive loop's forward
NextMap == Offline \/ MapTask \/ Connection \/ Forward

SpecMap == Init /\ [][NextMap]_vars

\* connections coming and going with no datagram forwarded; tokio runs
\* every spawned task and the rest of insert to their ends
NextCancel == Offline \/ MapTask \/ Connection

SpecCancel == Init /\ [][NextCancel]_vars /\ WF_vars(MapTask)

\* connections coming and going under a shutdown
NextShutdown == Offline \/ MapTask \/ Connection \/ Shutdown

SpecShutdown == Init /\ [][NextShutdown]_vars

\* the supervisor: Instance::run with its receive loops and the user map
Supervisor ==
    /\ \/ SignalCtrlC \/ SignalToken \/ ServiceCancel \/ UserMapJoined
       \/ TokenCancel \/ AwaitReceivers
       \/ \E j \in RecvJobs : ReceiverBreak(j)
    /\ UNCHANGED <<recv_vars, send_vars, login_vars, map_vars, codec_vars,
                   timer_vars>>

\* a receive loop that is still running takes an offline packet
ReceiverOffline ==
    /\ \E j \in RecvJobs : recv_job[j] = "running"
    /\ Len(users) < MaxRunUsers
    /\ Offline

\* user_map.join() runs once the signal listener has returned
UserMapJoin ==
    /\ run_pc = "join"
    /\ Shutdown

NextRun == Supervisor \/ ReceiverOffline \/ MapTask \/ Connection
              \/ UserMapJoin

SpecRun == Init /\ [][NextRun]_vars

\* offline packets: OpenConnectionRequest1 at the sizes of an MTU probe
Request1 ==
    \/ \E protocol \in ProtocolVersions, padding \in MinPadding..MaxPadding,
          server_guid \in Guids :
           Request1Packet(protocol, padding, server_guid)
    \/ \E buf \in OtherMagicRequests, server_guid \in Guids :
           Request1Raw(buf, server_guid)

SpecRequest1 == Init /\ [][Request1]_vars

\* one connection, its ticks and the datagrams that keep it alive
NextTimeout == Elapse \/ Tick \/ Ack

SpecTimeout == Init /\ [][NextTimeout]_vars

\* 24-bit integers written and read back, and raw bytes read
U24 ==
    \/ \E v \in U24Values : ReadU24(write_u24_le(v))
    \/ \E buf \in U24Bytes : ReadU24(buf)

SpecU24 == Init /\ [][U24]_vars

\* variable-length integers written and read back, and raw bytes read
VarU32 ==
    \/ \E hi \in VarHi, lo \in VarLo : WriteReadVar(U32(hi, lo))
    \/ \E buf \in VarBytes : ReadVar(buf)

SpecVarU32 == Init /\ [][VarU32]_vars

\* frame batches serialized and deserialized, and raw datagrams deserialized
FrameCodec ==
    \/ \E batch \in CodecBatches : WriteReadFrameBatch(batch)
    \/ \E buf \in CodecDatagrams : ReadFrameBatch(buf)

SpecFrame == Init /\ [][FrameCodec]_vars

\* payloads sent under every configuration of the compression
Compression ==
    \E enabled \in BOOLEAN, algorithm \in {"Deflate", "Snappy"},
       threshold \in 0..MaxThreshold, len \in 0..MaxPayloadLen :
        SendBufPayload(enabled, algorithm, threshold, len)

SpecCompression == Init /\ [][Compression]_vars

\* the two receive jobs and the offline replies they send
ServerGuid ==
    \/ \E j \in RecvJobs, server_guid \in Guids :
           NetReceiverStart(j, server_guid)
    \/ \E j \in RecvJobs, reply \in GuidReplies : OfflineReply(j, reply)

SpecGuid == Init /\ [][ServerGuid]_vars

Next ==
    \/ Supervisor \/ Request1 \/ Elapse \/ U24 \/ VarU32 \/ FrameCodec
    \/ ReceiveHostile \/ SendReliable \/ Compression \/ ServerGuid
    \/ ServerSends
    \/ Receive \/ AckReceive \/ Send \/ Tick \/ Nack \/ Ack \/ Game
    \/ Offline \/ MapTask \/ Connection \/ Forward \/ Shutdown

Spec == Init /\ [][Next]_vars

(***************************************************************************)
(* Properties of the inbound pipeline (SpecRecv)                           *)
(***************************************************************************)
Channels == 0..(ORDER_CHANNEL_COUNT - 1)

\* C1: on every order channel the frames handed to the frame-body
\* dispatcher have strictly increasing order_index, whatever the order in
\* which the frames arrived.
C1_OrderedDelivery ==
    \A i, j \in DOMAIN delivered :
        (/\ i < j
         /\ delivered[i].via = "order"
         /\ delivered[j].via = "order"
         /\ delivered[i].order_channel = delivered[j].order_channel)
        => delivered[i].order_index < delivered[j].order_index

\* index 2 of channel 0 was inserted before index 1, and both were
\* delivered
C1_Witness ==
    /\ \E i, j \in DOMAIN released :
          /\ i < j
          /\ released[i].order_channel = 0 /\ released[i].order_index = 2
          /\ released[j].order_channel = 0 /\ released[j].order_index = 1
    /\ \E i, j \in DOMAIN delivered :
          /\ delivered[i].via = "order" /\ delivered[i].order_channel = 0
          /\ delivered[i].order_index = 1
          /\ delivered[j].via = "order" /\ delivered[j].order_channel = 0
          /\ delivered[j].order_index = 2

\* the inserts into channel c, oldest first
RECURSIVE InsertsOf(_, _)
InsertsOf(log, c) ==
    IF log = <<>> THEN <<>>
    ELSE IF Head(log).order_channel = c
    THEN <<Head(log)>> \o InsertsOf(Tail(log), c)
    ELSE InsertsOf(Tail(log), c)

ReleasedOf(c) ==
    LET ins == InsertsOf(released, c)
    IN  Concat([k \in DOMAIN ins |-> ins[k].ready])

\* C2: OrderChannel::insert releases nothing while the next-expected
\* frame is missing; when it is present it releases it and its contiguous
\* successors in ascending order and advances the next-expected index past
\* them.  Inserting 0, 2, 1 releases [0], nothing, [1, 2], and every
\* inserted frame is released exactly once.
C2_OrderChannelInsert ==
    \A c \in Channels :
        LET ins == InsertsOf(released, c)
            out == ReleasedOf(c)
        IN  /\ \A k \in DOMAIN ins :
                  /\ ins[k].order_index # ins[k].expected
                        => ins[k].ready = <<>>
                  /\ ins[k].order_index = ins[k].expected
                        => /\ ins[k].ready # <<>>
                           /\ ins[k].ready[1] = ins[k].expected
            /\ out = [n \in 1..order[c].index |-> n - 1]
            /\ order[c].index \notin DOMAIN order[c].channel
            /\ (/\ Len(ins) >= 3
                /\ ins[1].order_index = 0
                /\ ins[2].order_index = 2
                /\ ins[3].order_index = 1)
               => /\ ins[1].ready = <<0>>
                  /\ ins[2].ready = <<>>
                  /\ ins[3].ready = <<1, 2>>

\* channel 0 took the inserts 0, 2, 1 and has released all three
C2_Witness ==
    LET ins == InsertsOf(released, 0)
    IN  /\ Len(ins) >= 3
        /\ ins[1].order_index = 0
        /\ ins[2].order_index = 2
        /\ ins[3].order_index = 1
        /\ order[0].index = 3

FragmentsArrived(cid) ==
    {f \in arrived : f.is_compound /\ f.compound_id = cid}

CompoundComplete(cid, size) ==
    \A k \in 0..(size - 1) :
        \E f \in FragmentsArrived(cid) : f.compound_index = k

\* the bodies of the arrived fragments of cid in compound_index order
CompoundBody(cid, size) ==
    Concat([k \in 1..size |->
        (CHOOSE f \in FragmentsArrived(cid) : f.compound_index = k - 1).body])

\* C10: nothing of a compound is delivered until all compound_size
\* fragments have arrived; the frame then produced has the fragment bodies
\* concatenated in compound_index order and keeps the fragments'
\* reliability, order channel and order index.
C10_Reassembly ==
    /\ \A i \in DOMAIN reassembled :
          LET r == reassembled[i]
          IN  /\ CompoundComplete(r.compound_id, r.compound_size)
              /\ ~r.is_compound
              /\ r.body = CompoundBody(r.compound_id, r.compound_size)
              /\ \A f \in FragmentsArrived(r.compound_id) :
                    /\ r.reliability = f.reliability
                    /\ r.order_channel = f.order_channel
                    /\ r.order_index = f.order_index
    /\ \A i \in DOMAIN delivered :
          \A f \in arrived :
              (/\ f.is_compound
               /\ delivered[i].order_channel = f.order_channel
               /\ delivered[i].order_index = f.order_index)
              => /\ CompoundComplete(f.compound_id, f.compound_size)
                 /\ delivered[i].body =
                        CompoundBody(f.compound_id, f.compound_size)
                 /\ delivered[i].reliability = f.reliability

\* the three fragments arrived and their concatenation was delivered on
\* the fragments' order channel
C10_Witness ==
    /\ CompoundComplete(7, 3)
    /\ \E i \in DOMAIN delivered :
          /\ delivered[i].body = <<254, 1, 2, 3, 4>>
          /\ delivered[i].order_channel = 1
          /\ delivered[i].order_index = 0
          /\ delivered[i].reliability = "ReliableOrdered"

\* C11: a reliable frame received twice (the same reliable_index, or the
\* same fragment of a compound) has its payload handed to the frame-body
\* dispatcher exactly once.
C11_NoDoubleDelivery ==
    \A i, j \in DOMAIN delivered :
        (/\ i < j
         /\ is_reliable(delivered[i].reliability)
         /\ is_reliable(delivered[j].reliability))
        => delivered[i].body # delivered[j].body

(***************************************************************************)
(* Properties of the acknowledgements (SpecAck)                            *)
(***************************************************************************)
\* how many records of an ACK cover sequence number n
AckCover(records, n) ==
    Cardinality({i \in DOMAIN records :
                    records[i].first <= n /\ n <= records[i].last})

\* C4: every inbound datagram that carried a reliable frame has its
\* sequence_number exactly once in the next ACK emitted, also when a
\* repeated copy of the datagram was received.
C4_AckedExactlyOnce ==
    \A i \in DOMAIN acks :
        \A n \in acks[i].answers : AckCover(acks[i].records, n) = 1

\* C5: flush_acknowledgements emits its records in ascending order, every
\* maximal run of consecutive sequence numbers as one Range and every
\* isolated number as a Single; {3,4,5,7,9,10} gives
\* [Range(3..5), Single(7), Range(9..10)].
C5_AckRecordsCoalesced ==
    /\ \A i \in DOMAIN acks :
          LET recs == acks[i].records
          IN  /\ \A k \in DOMAIN recs :
                    /\ recs[k].first <= recs[k].last
                    /\ (recs[k].kind = "Single") = (recs[k].first = recs[k].last)
                    /\ \A n \in recs[k].first..recs[k].last :
                          n \in Range(acks[i].pending)
              /\ \A k \in 1..(Len(recs) - 1) :
                    recs[k].last + 1 < recs[k + 1].first
              /\ \A n \in Range(acks[i].pending) : AckCover(recs, n) >= 1
    /\ AckRecords(<<3, 4, 5, 7, 9, 10>>)
          = <<AckRange(3, 5), AckSingle(7), AckRange(9, 10)>>

(***************************************************************************)
(* Properties of the outbound pipeline (SpecSend)                          *)
(***************************************************************************)
\* every frame handed to the socket, in emission order
WireFrames == Concat([i \in DOMAIN wire |-> wire[i].frames])

ReliableOnWire ==
    {k \in DOMAIN WireFrames : is_reliable(WireFrames[k].reliability)}

\* C3: the reliable_index values of the reliable frames put on the wire
\* are contiguous from 0 with no gap, and no two different frames share
\* one, fragmenting flushes included.
C3_ReliableIndexContiguous ==
    LET idx == {WireFrames[k].reliable_index : k \in ReliableOnWire}
    IN  /\ idx = 0..(Cardinality(idx) - 1)
        /\ \A k, m \in ReliableOnWire :
              WireFrames[k].reliable_index = WireFrames[m].reliable_index
                  => WireFrames[k].body = WireFrames[m].body

\* a flush that empties the Medium queue without an error
MediumFlushed ==
    /\ send_queue["Medium"] # <<>>
    /\ send_queue'["Medium"] = <<>>
    /\ send_result' = "ok"

\* C6: the frames of a datagram named by a NAK are put back at Medium
\* priority and retransmitted with the reliable, sequence and order index
\* they were first sent with; the retransmission increments no counter.
C6_NakRetransmission ==
    [][MediumFlushed =>
        /\ \A k \in DOMAIN send_queue["Medium"] :
              LET f == send_queue["Medium"][k]
              IN  f \in nacked =>
                    \E i \in (Len(wire) + 1)..Len(wire') :
                        \E m \in DOMAIN wire'[i].frames :
                            wire'[i].frames[m] = f
        /\ (\A p \in Priorities : Range(send_queue[p]) \subseteq nacked)
              => /\ ack_index' = ack_index
                 /\ sequence_index' = sequence_index
                 /\ order_index' = order_index]_vars

\* the fragments on the wire that carry compound id c
FragmentsOnWire(c) ==
    {k \in DOMAIN WireFrames :
        WireFrames[k].is_compound /\ WireFrames[k].compound_id = c}

CompoundIdsOnWire ==
    {WireFrames[k].compound_id :
        k \in {n \in DOMAIN WireFrames : WireFrames[n].is_compound}}

\* the frame handed to the send queue of which f is a fragment
OriginalsOf(f) ==
    {o \in drained : ~o.is_compound /\ o.body.id = f.body.id}

\* C7: a frame whose body plus overhead exceeds the MTU goes out as N
\* fragments, all is_compound with one compound_id and the original
\* reliability, compound_index 0..N-1, and compound_size equal to the
\* number N of fragments emitted; a 5000-byte body on MTU 1500 gives
\* compound_size 4.
C7_FragmentFields ==
    /\ \A c \in CompoundIdsOnWire :
          LET ks == FragmentsOnWire(c)
              indices == {WireFrames[k].compound_index : k \in ks}
          IN  /\ indices = 0..(Cardinality(indices) - 1)
              /\ \A k \in ks :
                    /\ WireFrames[k].compound_size = Cardinality(indices)
                    /\ \A o \in OriginalsOf(WireFrames[k]) :
                          WireFrames[k].reliability = o.reliability
    /\ LET big == FrameNew("ReliableOrdered",
                           [id |-> 0, off |-> 0, len |-> 5000])
           frs == split_frame(big, 0)
       IN  /\ Len(frs) = 4
           /\ \A k \in DOMAIN frs : frs[k].compound_size = 4

\* C8: the fragments of a reliable-ordered frame all carry the original's
\* order_channel and one shared order_index, and each a reliable_index of
\* its own.
C8_FragmentOrdering ==
    \A c \in CompoundIdsOnWire :
        \A k, m \in FragmentsOnWire(c) :
            (WireFrames[k].reliability = "ReliableOrdered")
            => /\ WireFrames[k].order_index = WireFrames[m].order_index
               /\ \A o \in OriginalsOf(WireFrames[k]) :
                     WireFrames[k].order_channel = o.order_channel
               /\ (WireFrames[k].compound_index # WireFrames[m].compound_index
                     => WireFrames[k].reliable_index
                            # WireFrames[m].reliable_index)

\* wire frames that carry (part of) the buffer of the given send
OnWireOf(id) == {k \in DOMAIN WireFrames : WireFrames[k].body.id = id}

\* C9: a body of exactly MTU minus the frame overhead goes out as one
\* unfragmented frame; a body one byte longer goes out as exactly two
\* fragments.
C9_FragmentBoundary ==
    send_result = "ok" =>
        \A o \in drained :
            /\ (~o.is_compound /\ o.body.len = MTU - SizeOfFrame)
                  => /\ Cardinality(OnWireOf(o.body.id)) = 1
                     /\ \A k \in OnWireOf(o.body.id) :
                           ~WireFrames[k].is_compound
            /\ (~o.is_compound /\ o.body.len = MTU - SizeOfFrame + 1)
                  => /\ Cardinality(OnWireOf(o.body.id)) = 2
                     /\ {WireFrames[k].compound_index :
                            k \in OnWireOf(o.body.id)} = {0, 1}
                     /\ \A k \in OnWireOf(o.body.id) :
                           WireFrames[k].is_compound

\* a step of the tick job
TickStep == current_tick' # current_tick

\* every frame the step took out of the queue of priority p is in a
\* datagram the step handed to the socket
EmittedFrom(p) ==
    \A k \in DOMAIN send_queue[p] :
        \E i \in (Len(wire) + 1)..Len(wire') :
            \E m \in DOMAIN wire'[i].frames :
                wire'[i].frames[m].body.id = send_queue[p][k].body.id

\* C12: every tick drains the High queue, every 2nd tick the Medium queue,
\* every 4th tick the Low queue and the pending acknowledgements, and what
\* a tick drains it emits: a frame queued at High, Medium or Low is on the
\* wire within 1, 2 or 4 ticks.
C12_FlushSchedule ==
    [][TickStep =>
        /\ send_queue'["High"] = <<>> /\ EmittedFrom("High")
        /\ current_tick % 2 = 0
              => send_queue'["Medium"] = <<>> /\ EmittedFrom("Medium")
        /\ current_tick % 4 = 0
              => /\ send_queue'["Low"] = <<>> /\ EmittedFrom("Low")
                 /\ acknowledged' = <<>>]_vars

(***************************************************************************)
(* Properties of the login sequence (SpecLogin)                            *)
(***************************************************************************)
\* the login states in the order a connection goes through them
LoginOrder ==
    <<"RequestNetworkSettings", "Login", "ClientToServerHandshake",
      "CacheStatus", "ResourcePackClientResponse",
      "SetLocalPlayerAsInitialized", "open">>

LoginRank(tag) == CHOOSE i \in DOMAIN LoginOrder : LoginOrder[i] = tag

\* C13: over any sequence of inbound game packets the expected-packet tag
\* never moves back to an earlier login state, in the order
\* RequestNetworkSettings, Login, ClientToServerHandshake, CacheStatus,
\* ResourcePackClientResponse, SetLocalPlayerAsInitialized, open.
C13_ExpectedMonotone ==
    [][LoginRank(expected') >= LoginRank(expected)]_vars

\* a step that took one game packet through the dispatcher
GameStep == game_packets' # game_packets

\* C14: after a login-stage packet has been handled successfully the
\* expected tag is the next state of the transition table:
\* RequestNetworkSettings to Login, Login to ClientToServerHandshake,
\* ClientToServerHandshake to CacheStatus, CacheStatus to
\* ResourcePackClientResponse, ResourcePackClientResponse to
\* SetLocalPlayerAsInitialized, SetLocalPlayerAsInitialized to open.
C14_TransitionTable ==
    [][(/\ GameStep
        /\ last_packet'.result = "ok"
        /\ last_packet'.id \in Range(LoginOrder))
       => expected' = LoginOrder[LoginRank(last_packet'.id) + 1]]_vars

\* C15: a game packet whose id differs from the expected tag, received
\* before the open state, gets the connection kicked and its handler is not
\* run; a Login received while RequestNetworkSettings is expected validates
\* no identity.
C15_MismatchKicked ==
    [][(/\ GameStep
        /\ expected # "open"
        /\ last_packet'.id # expected)
       => /\ user_status' = "kicked"
          /\ ~last_packet'.ran
          /\ identity' = identity]_vars

\* game packets that went through send_buf: still queued or on the wire
GameFrames ==
    {f \in UNION {Range(send_queue[p]) : p \in Priorities}
            \cup Range(WireFrames) :
        "packet" \in DOMAIN f.body}

HandshakeFrames ==
    {f \in GameFrames : f.body.packet = "ServerToClientHandshake"}

\* C16: once the Login handler has installed the encryptor every game
\* packet passed to send afterwards is encrypted before it is queued; the
\* ServerToClientHandshake itself and every packet queued before it stay
\* unencrypted, in the queue and on the wire.
C16_EncryptedAfterHandshake ==
    /\ encryptor <=> HandshakeFrames # {}
    /\ \A f \in GameFrames :
           f.body.encrypted <=>
               \E h \in HandshakeFrames : h.body.id < f.body.id

\* the handshake and a packet queued before it are on the wire in the
\* clear, and a packet sent after the encryptor was installed is on the
\* wire encrypted
C16_Witness ==
    /\ encryptor
    /\ \E h \in HandshakeFrames \cap Range(WireFrames) :
           /\ \E f \in GameFrames \cap Range(WireFrames) :
                  f.body.id < h.body.id /\ ~f.body.encrypted
           /\ \E f \in GameFrames \cap Range(WireFrames) :
                  f.body.id > h.body.id /\ f.body.encrypted

(***************************************************************************)
(* Properties of the user map (SpecMap, SpecShutdown)                      *)
(***************************************************************************)
\* C17: a connection moves from the connecting map to the connected map
\* exactly once, and only after its RakNet layer has signalled readiness;
\* before that signal its entry stays in the connecting map.
C17_PromotionOnceWhenReady ==
    \A id \in UserIds :
        /\ users[id].promotions <= 1
        /\ ~users[id].early
        /\ (Live(id) /\ ~users[id].ready)
               => connecting_map[users[id].address] = id

\* C18: promotion is atomic: while a connection is live its address is in
\* exactly one of the two maps, and a forward running next to the
\* promotion never finds the address in neither map and drops the
\* datagram.
C18_PromotionAtomic ==
    /\ \A id \in UserIds :
           Live(id) =>
               (connecting_map[users[id].address] # NoUser)
                   # (connected_map[users[id].address] # NoUser)
    /\ ~(forwarded.to = NoUser /\ forwarded.live)

\* C19: an OpenConnectionRequest2 from an address that has a live
\* connection is answered as an offline packet, leaves that connection's
\* entries in the user map untouched and creates no second live connection
\* for the address.
C19_OfflineLeavesConnection ==
    [][\A id, j \in UserIds :
          (/\ id # j
           /\ Live(id)
           /\ users[j].address = users[id].address
           /\ ~users[j].put /\ users'[j].put)
          => /\ replies' = replies + 1
             /\ connecting_map'[users[id].address]
                    = connecting_map[users[id].address]
             /\ connected_map'[users[id].address]
                    = connected_map[users[id].address]
             /\ ~(users'[j].put /\ users'[j].active)]_vars

\* C20: when shutdown returns, for any number of connections including
\* zero, a Disconnect has been broadcast, the token of every connection
\* that had an entry (connecting or connected) is cancelled, its task has
\* finished and no entry remains in the user map.
C20_ShutdownComplete ==
    shutdown \in {"returned", "failed"} =>
        /\ broadcasts >= 1
        /\ \A id \in at_shutdown :
               ~users[id].active /\ users[id].task = "finished"
        /\ \A a \in Addrs :
               connecting_map[a] = NoUser /\ connected_map[a] = NoUser

\* C27: every datagram emitted by send_raw_frames, those of its recursive
\* call included, carries a sequence_number that no earlier datagram of the
\* connection carried, and the batch_number counter never underflows (its
\* 32-bit value read as two's complement stays non-negative), also when the
\* first frame ever sent is oversize.
C27_SequenceNumbersFresh ==
    /\ \A i, j \in DOMAIN wire :
           i < j => wire[i].sequence_number # wire[j].sequence_number
    /\ batch_number >= 0

\* C28: after send_raw_frames returns, an emitted batch is in the recovery
\* queue under its sequence number if and only if it contains at least one
\* reliable frame, also when the batch was closed because the next frame
\* did not fit.
C28_RecoveryIffReliable ==
    [][(TickStep /\ send_result' = "ok") =>
          \A i \in (Len(wire) + 1)..Len(wire') :
              (\E k \in DOMAIN wire'[i].frames :
                   is_reliable(wire'[i].frames[k].reliability))
              <=> /\ wire'[i].sequence_number \in DOMAIN recovery_queue'
                  /\ recovery_queue'[wire'[i].sequence_number]
                         = wire'[i].frames]_vars

\* C29: no datagram emitted by send_raw_frames has an estimated size
\* greater than the connection's MTU, and a frame larger than the MTU
\* (body plus size_of::<Frame>()) is never put on the wire unfragmented.
C29_WithinMtu ==
    \A i \in DOMAIN wire :
        /\ estimate_size(wire[i]) <= MTU
        /\ \A k \in DOMAIN wire[i].frames :
               wire[i].frames[k].body.len + SizeOfFrame > MTU
                   => wire[i].frames[k].is_compound

\* the sequenced frames that have arrived on the connection
SequencedArrived == {f \in arrived : is_sequenced(f.reliability)}

\* the frame was not discarded by the filter of handle_frame: it reached
\* the frame-body dispatcher or is held by its order channel
PassedFilter(f) ==
    \/ \E i \in DOMAIN delivered :
           /\ delivered[i].reliability = f.reliability
           /\ delivered[i].order_channel = f.order_channel
           /\ delivered[i].order_index = f.order_index
           /\ delivered[i].body = f.body
    \/ f.order_index \in DOMAIN order[f.order_channel].channel

\* C30: a sequenced frame is dropped only if its sequence_index is lower
\* than the latest sequence_index already seen on the connection: the
\* sequenced frame with the highest sequence_index that has arrived was
\* the newest when it arrived and is delivered, whatever the sequence
\* number of the datagram that carried it.
C30_SequencedFilter ==
    \A f \in SequencedArrived :
        (\A g \in SequencedArrived : g.sequence_index <= f.sequence_index)
            => PassedFilter(f)

\* C21: on shutdown the supervisor completes the user-map shutdown before
\* it cancels the global token, a receive loop terminates only after that
\* cancellation, and every receive loop is still running while the clients
\* are being kicked.
C21_ShutdownOrder ==
    /\ run_pc \in {"await", "done"} => shutdown \in {"returned", "failed"}
    /\ \A j \in RecvJobs :
           recv_job[j] = "closed" => run_pc \in {"await", "done"}
    /\ shutdown \in {"kicked", "joining"} =>
           \A j \in RecvJobs : recv_job[j] = "running"

(***************************************************************************)
(* Properties of the offline handshake (SpecRequest1)                      *)
(***************************************************************************)
\* the reply is an OpenConnectionReply1
IsReply1 == offline_io.reply # <<>> /\ offline_io.reply[1] = 6

\* the mtu field of the reply: its last two bytes, big endian
ReplyMtu == read_u16_be(Drop(offline_io.reply, 26))

\* the request `0x05 || magic || protocol=11 || 1450 zero bytes`
ProbeLen == 1 + 16 + 1 + 1450

\* C22 as stated: the MTU carried in OpenConnectionReply1 is the request
\* length + 28, and for the request with 1450 zero bytes it is 1478.
C22_ReplyMtuStated ==
    IsReply1 =>
        /\ ReplyMtu = offline_io.len + 28
        /\ offline_io.len = ProbeLen => ReplyMtu = 1478

\* C22 as amended: the MTU carried in OpenConnectionReply1 is the request
\* length + 28, which for the 1468-byte request with 1450 zero bytes is
\* 1496.
C22_ReplyMtu ==
    IsReply1 =>
        /\ ReplyMtu = offline_io.len + 28
        /\ offline_io.len = ProbeLen => ReplyMtu = 1496

\* the probe with 1450 zero bytes and protocol 11 has been answered
C22_Witness ==
    /\ IsReply1
    /\ offline_io.len = ProbeLen
    /\ offline_io.protocol = RAKNET_VERSION
    /\ ReplyMtu = 1496

(***************************************************************************)
(* Properties of the inactivity timer (SpecTimeout)                        *)
(***************************************************************************)
\* C23: a tick of a connection that has handled no datagram for longer
\* than SESSION_TIMEOUT cancels it, and a connection is cancelled for
\* inactivity only then: one that keeps handling datagrams at intervals
\* shorter than SESSION_TIMEOUT is never cancelled.
C23_InactivityTimeout ==
    [][/\ (TickStep /\ now - last_datagram > SESSION_TIMEOUT) => ~active'
       /\ (active /\ ~active') => now - last_datagram > SESSION_TIMEOUT]_vars

\* a connection that was kept alive past SESSION_TIMEOUT by a datagram,
\* then fell silent for longer than SESSION_TIMEOUT and was cancelled
C23_Witness ==
    /\ ~active
    /\ last_datagram > SESSION_TIMEOUT
    /\ now - last_datagram > SESSION_TIMEOUT

(***************************************************************************)
(* Properties of the 24-bit integers (SpecU24)                             *)
(***************************************************************************)
\* C26: reading a 24-bit little-endian integer from the bytes b0, b1, b2
\* yields b0 + 256*b1 + 65536*b2, a value below 2^24 whose extra byte in
\* the 32-bit lane is zero, so that reading back a written u24 returns the
\* written value.
C26_ReadU24 ==
    u24_io.read.result = "ok" =>
        /\ u24_io.read.value.hi < 256
        /\ u24_io.read.value.hi = u24_io.bytes[3]
        /\ u24_io.read.value.lo = u24_io.bytes[1] + 256 * u24_io.bytes[2]

(***************************************************************************)
(* Properties of the variable-length integers (SpecVarU32)                 *)
(***************************************************************************)
\* the value v was written and took n bytes
VarLen(v, n) ==
    (var_io.wrote /\ var_io.written = ToU32(v)) => Len(var_io.bytes) = n

\* C25: the varuint32 encoding round-trips every value up to u32::MAX, the
\* values 0, 127, 128, 16383, 16384 take 1, 1, 2, 2, 3 bytes, and the
\* reader rejects as Malformed an encoding that has not ended after 5
\* bytes.
C25_VarU32 ==
    /\ var_io.wrote =>
           /\ var_io.read.result = "ok"
           /\ var_io.read.value = var_io.written
           /\ var_io.read.rest = <<>>
    /\ VarLen(0, 1) /\ VarLen(127, 1) /\ VarLen(128, 2)
    /\ VarLen(16383, 2) /\ VarLen(16384, 3)
    /\ (/\ Len(var_io.bytes) >= 5
        /\ \A k \in 1..5 : var_io.bytes[k] >= 128)
           => var_io.read.result = "Malformed"

\* u32::MAX was written in five bytes and read back
C25_Witness ==
    /\ var_io.wrote
    /\ var_io.written = U32(65535, 65535)
    /\ var_io.bytes = <<255, 255, 255, 255, 15>>
    /\ var_io.read.result = "ok"
    /\ var_io.read.value = U32(65535, 65535)

(***************************************************************************)
(* Properties of the frame batch codec (SpecFrame)                         *)
(***************************************************************************)
\* the fields that the frame's reliability and is_compound do not carry
\* are zero, and the indices fit 24 bits
FrameWellFormed(frame) ==
    /\ \A v \in FrameU24Fields(frame) : v.hi < 256
    /\ is_reliable(frame.reliability) \/ frame.reliable_index = U32(0, 0)
    /\ is_sequenced(frame.reliability) \/ frame.sequence_index = U32(0, 0)
    /\ is_ordered(frame.reliability)
       \/ (frame.order_index = U32(0, 0) /\ frame.order_channel = 0)
    /\ frame.is_compound
       \/ (/\ frame.compound_size = U32(0, 0)
           /\ frame.compound_id = 0
           /\ frame.compound_index = U32(0, 0))

FrameBatchWellFormed(batch) ==
    /\ batch.sequence_number.hi < 256
    /\ \A i \in DOMAIN batch.frames : FrameWellFormed(batch.frames[i])

\* C24: decode(encode(b)) = b for every well-formed frame batch b: a
\* sequence number below 2^24, any number of frames, every combination of
\* reliability and is_compound, the fields that a reliability does not
\* carry being zero.
C24_FrameBatchRoundTrip ==
    (frame_io.wrote /\ FrameBatchWellFormed(frame_io.batch)) =>
        /\ frame_io.read.result = "ok"
        /\ frame_io.read.batch = frame_io.batch

(***************************************************************************)
(* Properties of the acknowledgements taken in (SpecAcked)                 *)
(***************************************************************************)
\* C31: an ACK whose records cover sequence numbers present in the
\* recovery queue and sequence numbers absent from it removes exactly the
\* present ones and leaves every other entry of the queue as it was.
C31_AckRemovesKnown ==
    [][last_ack' # last_ack =>
        /\ DOMAIN recovery_queue' = (DOMAIN recovery_queue) \ last_ack'.seqs
        /\ \A s \in DOMAIN recovery_queue' :
              recovery_queue'[s] = recovery_queue[s]]_vars

\* the last ACK covered a stored datagram and one that was not stored, and
\* a third datagram is still in the queue
C31_Witness ==
    /\ last_ack.seqs \cap DOMAIN last_ack.queue # {}
    /\ last_ack.seqs \ DOMAIN last_ack.queue # {}
    /\ DOMAIN recovery_queue = (DOMAIN last_ack.queue) \ last_ack.seqs
    /\ recovery_queue # <<>>

(***************************************************************************)
(* Properties under a peer that does not keep to the protocol              *)
(* (SpecHostile)                                                           *)
(***************************************************************************)
\* C32: no inbound datagram makes the connection's task panic: a frame
\* with an empty body, an ordered frame whose order_channel is not below
\* ORDER_CHANNEL_COUNT, a body with an unknown ID and a repeated Login each
\* end in an error or a close of the connection.
C32_NoPanic ==
    /\ recv_result # "panic"
    /\ user_status # "panicked"

\* the last frame body handed to the dispatcher had an ID without an arm
UnknownIdHandled ==
    /\ recv_result = "err"
    /\ delivered # <<>>
    /\ delivered[Len(delivered)].body # <<>>
    /\ delivered[Len(delivered)].body[1] \notin KnownIds

\* C33: a frame body whose first byte is none of 0xfe, 0x15, 0x09, 0x13,
\* 0x00 is a protocol error that closes the connection: once it has been
\* handled the connection's token is cancelled.
C33_UnknownIdCloses ==
    UnknownIdHandled => ~active

(***************************************************************************)
(* Properties of failed login packets (SpecLogin)                          *)
(***************************************************************************)
\* the step handled a Login or a RequestNetworkSettings and the handler
\* returned an error
LoginStageFailed ==
    /\ game_packets' = game_packets + 1
    /\ last_packet'.id \in {"Login", "RequestNetworkSettings"}
    /\ last_packet'.ran
    /\ last_packet'.result = "err"

\* C34: when the handling of a login-stage packet fails (a malformed or
\* unauthenticated Login, a protocol version mismatch in
\* RequestNetworkSettings), the connection is closed and the expected tag,
\* the identity, the encryptor and the compressed flag are what they were
\* before the packet: the tag advances only on success.
C34_FailureKeepsState ==
    [][LoginStageFailed =>
        /\ user_status' # "active"
        /\ expected' = expected
        /\ identity' = identity
        /\ encryptor' = encryptor
        /\ compressed' = compressed]_vars

(***************************************************************************)
(* Properties of the offline message magic (SpecRequest1)                  *)
(***************************************************************************)
\* C35: an offline request whose 16-byte offline-message magic is missing
\* or wrong is Malformed: it is dropped without a reply.
C35_MagicChecked ==
    offline_io.magic # OFFLINE_MESSAGE_DATA => offline_io.reply = <<>>

(***************************************************************************)
(* Properties of the compression threshold (SpecCompression)               *)
(***************************************************************************)
\* C36: with compression negotiated, an outbound payload is compressed if
\* and only if its length exceeds the configured threshold, and a
\* threshold of 0 disables compression: with threshold 0 no outbound
\* payload is compressed.
C36_CompressionThreshold ==
    (compress_io.enabled /\ compress_io.algorithm = "Deflate") =>
        /\ compress_io.threshold > 0 =>
              (compress_io.sent = "compressed"
                  <=> compress_io.len > compress_io.threshold)
        /\ compress_io.threshold = 0 => compress_io.sent # "compressed"

(***************************************************************************)
(* Properties of the server GUID (SpecGuid)                                *)
(***************************************************************************)
\* C37: every offline reply sent during one server process, on the IPv4
\* socket and on the IPv6 socket alike, carries the same server GUID.
C37_OneServerGuid ==
    \A r1, r2 \in guid_io.sent : r1.server_guid = r2.server_guid

(***************************************************************************)
(* Properties of a flush, frame by frame (SpecSend)                        *)
(***************************************************************************)
\* where the datagrams the step hands to the socket carry the body b
NewCopiesOf(b) ==
    UNION {{<<i, m>> : m \in {n \in DOMAIN wire'[i].frames :
                                 wire'[i].frames[n].body = b}} :
           i \in (Len(wire) + 1)..Len(wire')}

\* the bodies of the fragments split_frame makes of frame
FragmentBodies(frame) ==
    {split_frame(frame, 0)[i].body : i \in 1..SplitChunkCount(frame)}

\* the frame is on the wire once: whole if it is no larger than the MTU,
\* else as its fragments, each of them once
EmittedOnce(frame) ==
    IF frame.body.len + SizeOfFrame <= MTU
    THEN Cardinality(NewCopiesOf(frame.body)) = 1
    ELSE /\ NewCopiesOf(frame.body) = {}
         /\ \A b \in FragmentBodies(frame) :
               Cardinality(NewCopiesOf(b)) = 1

\* C38: every frame drained from a send queue by a flush is put on the wire
\* in exactly one datagram: no frame is dropped when the current batch is
\* full or when the frame does not fit an empty batch, and no frame is
\* emitted twice.
C38_DrainedOnce ==
    [][(TickStep /\ send_result' = "ok") =>
        \A p \in Priorities :
            send_queue'[p] = <<>> =>
                \A k \in DOMAIN send_queue[p] :
                    EmittedOnce(send_queue[p][k])]_vars

(***************************************************************************)
(* Properties of the encrypted stream (SpecEncrypted)                      *)
(***************************************************************************)
\* the encrypted game packets on the wire
EncryptedOnWire ==
    {k \in DOMAIN WireFrames :
        /\ "encrypted" \in DOMAIN WireFrames[k].body
        /\ WireFrames[k].body.encrypted}

\* C39: encrypted game packets leave the connection in the order in which
\* they were encrypted: their order_index order on the wire equals the order
\* of the send-side encryption counter, also when the packets are queued at
\* different priorities and flushed on different ticks.
C39_EncryptedInOrder ==
    \A k, m \in EncryptedOnWire :
        WireFrames[k].body.counter < WireFrames[m].body.counter
            => /\ k < m
               /\ WireFrames[k].order_index < WireFrames[m].order_index

(***************************************************************************)
(* Properties of a cancelled connection in the user map (SpecCancel)       *)
(***************************************************************************)
\* the cancellation token of connection id has fired
TokenFired(id) == id \in UserIds /\ ~users[id].active

\* neither map holds connection id under its address
AbsentFromMaps(id) ==
    \A a \in Addrs : connecting_map[a] # id /\ connected_map[a] # id

\* C40: once a connection's cancellation token has fired, its address is
\* eventually absent from both the connecting and the connected map and is
\* not inserted again by that connection's own promotion task, under every
\* interleaving of the promotion task, the removal task and the insertion
\* into the connecting map.
C40_CancelledLeavesMaps ==
    \A id \in 1..MaxUsers :
        [](TokenFired(id) => <>[]AbsentFromMaps(id))

====
